---- MODULE Spec2Model ----
(***************************************************************************)
(* A model of the embedding and retrieval gateway of                       *)
(* src/docker/embed/embed.py: the ingest handler (embed) with its chunked  *)
(* path, and the search handlers that fuse, group and rerank the hits the  *)
(* vector index returns.                                                   *)
(*                                                                         *)
(* The collaborators are abstracted by their contracts.  The encoders      *)
(* produce a vector that the model does not look into: a stored point      *)
(* records only which named vectors it carries.  uuid4() is a supply of    *)
(* fresh identifiers.  The index search returns hits highest score first;  *)
(* its scores are inputs of the search handlers.                           *)
(***************************************************************************)
EXTENDS Integers, Sequences, FiniteSets, TLC

\* ------------------------------------------------------------------ bounds

MaxTextLen == 2
MaxChunkSize == 1
MaxChunks == 2
MaxIds == 4
MaxChunkedIds == 8
MaxLimit == 2
MaxCandidates == 2
MaxChunksPerDoc == 2
MaxScore == 1
WeightScale == 2
MaxRerankLen == 3
MaxDeleteIds == 8

\* ------------------------------------------------------- program constants

\* Python's None, where a number is expected (ids start at 1, indexes at 0).
None == -1

allowed_image_types == {"image/png"}
image_exts == {".png"}
allowed_text_types == {"text/plain"}
text_exts == {".txt"}

\* ------------------------------------------------------------ input spaces

Chars == {"a", " "}
Texts == UNION {[1..n -> Chars] : n \in 0..MaxTextLen}

ContentTypes == {"image/png", "text/plain", "application/pdf"}
Filenames ==
    { [stem |-> <<"a">>, ext |-> ".png"],
      [stem |-> <<"b">>, ext |-> ".txt"],
      [stem |-> <<"c">>, ext |-> ".pdf"] }

\* The bytes of an uploaded file: an image PIL can open, text in one of the two
\* encodings the handler tries, or bytes that are neither.
FileContents ==
    {[kind |-> "image", text |-> <<>>], [kind |-> "binary", text |-> <<>>]}
    \cup {[kind |-> "utf-8", text |-> t] : t \in Texts}
    \cup {[kind |-> "utf-16", text |-> t] : t \in {<<"a">>}}

NoFile == [stem |-> <<>>, ext |-> ""]

EmbedOptions ==
    [use_chunking : BOOLEAN, chunk_size : 1..MaxChunkSize, use_hybrid : BOOLEAN]

\* An /embed request: a multipart upload ('file'), the inline form field
\* 'text', or neither.
EmbedRequests ==
    { [src |-> "file", filename |-> f, content_type |-> ct, content |-> c,
       text |-> <<>>, opt |-> o] :
        f \in Filenames, ct \in ContentTypes, c \in FileContents, o \in EmbedOptions }
    \cup
    { [src |-> "text", filename |-> NoFile, content_type |-> "",
       content |-> [kind |-> "none", text |-> <<>>], text |-> t, opt |-> o] :
        t \in Texts, o \in EmbedOptions }
    \cup
    { [src |-> "none", filename |-> NoFile, content_type |-> "",
       content |-> [kind |-> "none", text |-> <<>>], text |-> <<>>, opt |-> o] :
        o \in EmbedOptions }

\* ------------------------------------------------------------------- state

VARIABLES
    index,      \* the collection: point id -> [vector, payload]
    nextId,     \* the uuid4() supply: every id below it has been handed out
    preloaded,  \* the loaded models: which entries of `preloaded` are not None
    req,        \* the request the last handler served
    resp,       \* its response: [status, body]
    trace       \* the collaborator calls it made, in order

vars == <<index, nextId, preloaded, req, resp, trace>>

\* --------------------------------------------------------- string helpers

RECURSIVE lstrip(_)
lstrip(s) == IF s # <<>> /\ Head(s) = " " THEN lstrip(Tail(s)) ELSE s

RECURSIVE rstrip(_)
rstrip(s) ==
    IF s # <<>> /\ s[Len(s)] = " " THEN rstrip(SubSeq(s, 1, Len(s) - 1)) ELSE s

\* str.strip()
strip(s) == rstrip(lstrip(s))

\* dict.get(key, default)
Get(d, key, default) == IF key \in DOMAIN d THEN d[key] ELSE default

\* ------------------------------------------------------------ the chunker

\* chunk_text: what RecursiveCharacterTextSplitter can answer for the text.  The
\* splitter strips every chunk and drops the empty ones, so blank text gives no
\* chunk and any other text at least one.  Where it cuts (chunk_overlap tunes
\* that) and what the chunks hold is opaque to the handlers; the overlap is
\* taken to be one the splitter accepts.
chunk_text(text, chunk_size) ==
    IF strip(text) = <<>>
    THEN {<<>>}
    ELSE {[i \in 1..n |-> "chunk"] : n \in 1..MaxChunks}

\* ------------------------------------------------------------- responses

Response(status, body) == [status |-> status, body |-> body]

\* The outcome of a handler: the collection and the id supply after it, its
\* response and the collaborator calls it made.
Outcome(idx, nid, response, calls) ==
    [index |-> idx, nextId |-> nid, resp |-> response, trace |-> calls]

\* qdrant.upsert: overwrites on id collision.
upsert(idx, points) ==
    [i \in DOMAIN idx \cup DOMAIN points |->
        IF i \in DOMAIN points THEN points[i] ELSE idx[i]]

\* ------------------------------------------------------------------ ingest

\* embed_chunked_text with the chunks numbered from 1.
embed_chunked_text_from_one(idx, nid, filename, document_id, chunks) ==
    LET n == Len(chunks)
        chunk_id(i) == nid + i
        chunk_points ==
            [id \in {chunk_id(i) : i \in 0..(n - 1)} |->
                [vector |-> {""},
                 payload |-> [type |-> "text",
                              mongo_ref |-> document_id,
                              filename |-> filename,
                              is_chunk |-> TRUE,
                              chunk_index |-> id - nid + 1,
                              document_id |-> document_id,
                              chunk_id |-> id,
                              total_chunks |-> n]]]
    IN  IF n = 0
        THEN Outcome(idx, nid,
                     Response(400, [error |-> "Failed to create chunks from text"]),
                     <<"chunk_text">>)
        ELSE Outcome(upsert(idx, chunk_points), nid + n,
                     Response(200, [document_id |-> document_id,
                                    filename |-> filename,
                                    chunk_ids |-> [i \in 1..n |-> chunk_id(i - 1)],
                                    total_chunks |-> n,
                                    chunked |-> TRUE]),
                     <<"chunk_text">> \o [i \in 1..n |-> "embed_text"] \o <<"upsert">>)

\* embed_chunked_text: one point per chunk, written by a single upsert after
\* every chunk has been embedded.  The ids of the chunks are fresh uuids taken
\* after the two the caller drew.
embed_chunked_text(idx, nid, filename, document_id, chunks) ==
    LET n == Len(chunks)
        chunk_id(i) == nid + i
        chunk_points ==
            [id \in {chunk_id(i) : i \in 0..(n - 1)} |->
                [vector |-> {""},
                 payload |-> [type |-> "text",
                              mongo_ref |-> document_id,
                              filename |-> filename,
                              is_chunk |-> TRUE,
                              chunk_index |-> id - nid,
                              document_id |-> document_id,
                              chunk_id |-> id,
                              total_chunks |-> n]]]
    IN  IF n = 0
        THEN Outcome(idx, nid,
                     Response(400, [error |-> "Failed to create chunks from text"]),
                     <<"chunk_text">>)
        ELSE Outcome(upsert(idx, chunk_points), nid + n,
                     Response(200, [document_id |-> document_id,
                                    filename |-> filename,
                                    chunk_ids |-> [i \in 1..n |-> chunk_id(i - 1)],
                                    total_chunks |-> n,
                                    chunked |-> TRUE]),
                     <<"chunk_text">> \o [i \in 1..n |-> "embed_text"] \o <<"upsert">>)

\* embed_single_text with the point's own id as its document_id.
embed_single_text_own_id(idx, nid, pre, filename, mongo_ref, vector_id, use_hybrid) ==
    LET hybrid == use_hybrid /\ pre.sparse_vectorizer
        payload == [type |-> "text",
                    mongo_ref |-> mongo_ref,
                    filename |-> filename,
                    is_chunk |-> FALSE,
                    document_id |-> vector_id,
                    has_sparse_embedding |-> hybrid]
        point == [vector |-> IF hybrid THEN {"dense", "sparse"} ELSE {"dense"},
                  payload |-> payload]
    IN  Outcome(upsert(idx, [id \in {vector_id} |-> point]), nid,
                Response(200, [vector_id |-> vector_id,
                               mongo_ref |-> mongo_ref,
                               chunked |-> FALSE,
                               hybrid |-> hybrid]),
                IF hybrid
                THEN <<"embed_text", "generate_sparse_embedding", "upsert">>
                ELSE <<"embed_text", "upsert">>)

\* The single-point branch of embed for text: dense and sparse vectors when
\* hybrid is asked for and the vectorizer is there, dense only otherwise.
embed_single_text(idx, nid, pre, filename, mongo_ref, vector_id, use_hybrid) ==
    LET hybrid == use_hybrid /\ pre.sparse_vectorizer
        payload == [type |-> "text",
                    mongo_ref |-> mongo_ref,
                    filename |-> filename,
                    is_chunk |-> FALSE,
                    document_id |-> mongo_ref,
                    has_sparse_embedding |-> hybrid]
        point == [vector |-> IF hybrid THEN {"dense", "sparse"} ELSE {"dense"},
                  payload |-> payload]
    IN  Outcome(upsert(idx, [id \in {vector_id} |-> point]), nid,
                Response(200, [vector_id |-> vector_id,
                               mongo_ref |-> mongo_ref,
                               chunked |-> FALSE,
                               hybrid |-> hybrid]),
                IF hybrid
                THEN <<"embed_text", "generate_sparse_embedding", "upsert">>
                ELSE <<"embed_text", "upsert">>)

\* The filename embed makes up for inline text: "text_" + the stripped first
\* characters (+ "..." when that is shorter than the text), spaces and slashes
\* replaced by underscores, + ".txt".
generated_filename(text) ==
    LET head == strip(SubSeq(text, 1, IF Len(text) < 20 THEN Len(text) ELSE 20))
        text_preview == IF Len(head) < Len(text) THEN head \o <<"...">> ELSE head
    IN  [stem |-> <<"text_">> \o
                  [i \in 1..Len(text_preview) |->
                      IF text_preview[i] \in {" ", "/"} THEN "_" ELSE text_preview[i]],
         ext |-> ".txt"]

\* file_kind with every upload that is no image taken for text.
file_kind_lenient(content_type, filename) ==
    IF content_type \in allowed_image_types \/ filename.ext \in image_exts
    THEN "image"
    ELSE "text"

\* How embed sorts an upload: an image by content type or extension, else a
\* text by content type or extension, else neither.
file_kind(content_type, filename) ==
    IF content_type \in allowed_image_types \/ filename.ext \in image_exts
    THEN "image"
    ELSE IF content_type \in allowed_text_types \/ filename.ext \in text_exts
         THEN "text"
         ELSE "unsupported"

\* The image branch of embed: one point with the dense vector alone.
embed_image(idx, nid, r, mongo_ref, vector_id) ==
    IF r.content.kind # "image"
    THEN Outcome(idx, nid, Response(400, [error |-> "Failed to process image"]),
                 <<"embed_image_file">>)
    ELSE Outcome(upsert(idx, [id \in {vector_id} |->
                    [vector |-> {"dense"},
                     payload |-> [type |-> "image",
                                  mongo_ref |-> mongo_ref,
                                  filename |-> r.filename]]]),
                 nid,
                 Response(200, [embedding |-> "dense",
                                vector_id |-> vector_id,
                                mongo_ref |-> mongo_ref]),
                 <<"embed_image_file", "upsert">>)

\* The branch of embed both kinds of text end in: chunked when chunking is on
\* and the text is longer than a chunk, a single point otherwise.
embed_text_document(idx, nid, pre, text, filename, mongo_ref, vector_id, o, chunks) ==
    IF o.use_chunking /\ Len(text) > o.chunk_size
    THEN embed_chunked_text(idx, nid, filename, mongo_ref, chunks)
    ELSE embed_single_text(idx, nid, pre, filename, mongo_ref, vector_id, o.use_hybrid)

\* The text-file branch of embed: the bytes are decoded (utf-8, then utf-16)
\* and blank text is refused before anything is embedded.
embed_text_file(idx, nid, pre, r, mongo_ref, vector_id, chunks) ==
    IF r.content.kind \notin {"utf-8", "utf-16"}
    THEN Outcome(idx, nid, Response(400, [error |-> "appears to be binary data"]), <<>>)
    ELSE IF strip(r.content.text) = <<>>
    THEN Outcome(idx, nid, Response(400, [error |-> "appears to be empty"]), <<>>)
    ELSE embed_text_document(idx, nid, pre, r.content.text, r.filename, mongo_ref,
                             vector_id, r.opt, chunks)

\* embed: the /embed handler.  `chunks` is what chunk_text answers if called.
embed(idx, nid0, pre, r, chunks) ==
    LET mongo_ref == nid0
        vector_id == nid0 + 1
        nid == nid0 + 2
        kind == file_kind(r.content_type, r.filename)
    IN  IF r.src = "file"
        THEN IF kind = "image"
             THEN embed_image(idx, nid, r, mongo_ref, vector_id)
             ELSE IF kind = "text"
             THEN embed_text_file(idx, nid, pre, r, mongo_ref, vector_id, chunks)
             ELSE Outcome(idx, nid,
                          Response(400, [error |-> "Unsupported file type"]), <<>>)
        ELSE IF r.src = "text"
        THEN embed_text_document(idx, nid, pre, r.text, generated_filename(r.text),
                                 mongo_ref, vector_id, r.opt, chunks)
        ELSE Outcome(idx, nid,
                     Response(400, [error |-> "No 'file' or 'text' provided"]), <<>>)

\* The text embed reaches its chunking decision with, if it gets that far.
ingest_text(r) == IF r.src = "file" THEN r.content.text ELSE r.text

\* Whether embed calls chunk_text for this request.
reaches_chunker(r) ==
    /\ r.opt.use_chunking
    /\ Len(ingest_text(r)) > r.opt.chunk_size
    /\ \/ r.src = "text"
       \/ /\ r.src = "file"
          /\ file_kind(r.content_type, r.filename) = "text"
          /\ r.content.kind \in {"utf-8", "utf-16"}
          /\ strip(r.content.text) # <<>>

chunker_outcomes(r) ==
    IF reaches_chunker(r) THEN chunk_text(ingest_text(r), r.opt.chunk_size) ELSE {<<>>}

\* ------------------------------------------------------------ the index

Scores == 0..MaxScore

\* The cross-encoder's logits: unbounded reals, negative ones included.
RerankScores == {-1, 0, 1}

Min(a, b) == IF a < b THEN a ELSE b

NonIncreasing(scores) ==
    \A i \in 1..(Len(scores) - 1) : scores[i] >= scores[i + 1]

\* qdrant.search: the hit lists the index can answer with.  The hits are
\* distinct points that carry a vector of the queried name, highest score
\* first; without a score threshold the index returns the `limit` nearest
\* points, with one it leaves out those that score below it.  Which points are
\* near, and how near, is the encoders' business: every choice is possible.
qdrant_search(idx, names, limit, threshold) ==
    LET ids == {i \in DOMAIN idx : idx[i].vector \cap names # {}}
        most == Min(limit, Cardinality(ids))
        floor == IF threshold = None THEN 0 ELSE threshold
        lens == IF threshold = None THEN {most} ELSE 0..most
    IN  UNION { { [k \in 1..n |->
                      [id |-> h[k][1], score |-> h[k][2], payload |-> idx[h[k][1]].payload]] :
                  h \in { g \in [1..n -> ids \X (floor..MaxScore)] :
                            /\ \A a, b \in 1..n : a # b => g[a][1] # g[b][1]
                            /\ NonIncreasing([k \in 1..n |-> g[k][2]]) } } :
                n \in lens }

\* ------------------------------------------------------------------ search

\* The filename every search variant reports: the payload's, or one made up
\* when the payload has none (no point written by embed lacks it).
result_filename(hit) ==
    Get(hit.payload, "filename", [stem |-> <<"document_">>, ext |-> ".txt"])

\* The result object search and search_reranked build from a hit.
plain_result(hit) ==
    [vector_id |-> hit.id,
     score |-> hit.score,
     type |-> Get(hit.payload, "type", "None"),
     mongo_ref |-> Get(hit.payload, "mongo_ref", None),
     filename |-> result_filename(hit)]

\* The result object the chunk-aware variants build from a hit.
chunk_result(hit) ==
    [vector_id |-> hit.id,
     score |-> hit.score,
     type |-> Get(hit.payload, "type", "None"),
     mongo_ref |-> Get(hit.payload, "mongo_ref", None),
     is_chunk |-> Get(hit.payload, "is_chunk", FALSE),
     document_id |-> Get(hit.payload, "document_id", None),
     chunk_index |-> Get(hit.payload, "chunk_index", None),
     filename |-> result_filename(hit)]

\* list[:n] taken for the whole list.
take_all(seq, n) == seq

\* list[:n]
Take(seq, n) ==
    IF n >= 0
    THEN SubSeq(seq, 1, Min(n, Len(seq)))
    ELSE SubSeq(seq, 1, IF Len(seq) + n < 0 THEN 0 ELSE Len(seq) + n)

\* insert_by_score putting an element before those of equal score: a sort
\* that is descending but not stable.
RECURSIVE insert_ties_first(_, _)
insert_ties_first(sorted, x) ==
    IF sorted = <<>> THEN <<x>>
    ELSE IF Head(sorted).score > x.score
         THEN <<Head(sorted)>> \o insert_ties_first(Tail(sorted), x)
         ELSE <<x>> \o sorted

\* sorted(..., key=score, reverse=True): descending and stable.
RECURSIVE insert_by_score(_, _)
insert_by_score(sorted, x) ==
    IF sorted = <<>> THEN <<x>>
    ELSE IF Head(sorted).score >= x.score
         THEN <<Head(sorted)>> \o insert_by_score(Tail(sorted), x)
         ELSE <<x>> \o sorted

\* sort_by_score leaving the list as it finds it.
keep_order(seq) == seq

RECURSIVE sort_by_score(_)
sort_by_score(seq) ==
    IF seq = <<>> THEN <<>>
    ELSE insert_by_score(sort_by_score(SubSeq(seq, 1, Len(seq) - 1)), seq[Len(seq)])

\* rerank_results with the new scores written but the list left in its order.
rerank_results_unsorted(results, scores) ==
    IF results = <<>> THEN results
    ELSE [i \in 1..Len(results) |->
             [f \in DOMAIN results[i] \cup {"original_score"} |->
                 IF f = "original_score" THEN results[i].score
                 ELSE IF f = "score" THEN scores[i]
                 ELSE results[i][f]]]

\* rerank_results with the two assignments of its update loop swapped: the
\* score is overwritten before it is kept as original_score.
rerank_results_score_first(results, scores) ==
    IF results = <<>> THEN results
    ELSE sort_by_score(
            [i \in 1..Len(results) |->
                [f \in DOMAIN results[i] \cup {"original_score"} |->
                    IF f = "original_score" THEN scores[i]
                    ELSE IF f = "score" THEN scores[i]
                    ELSE results[i][f]]])

\* rerank_results: every result keeps its retrieval score as original_score,
\* takes the cross-encoder's score, and the list is sorted by the new score.
rerank_results(results, scores) ==
    IF results = <<>> THEN results
    ELSE sort_by_score(
            [i \in 1..Len(results) |->
                [f \in DOMAIN results[i] \cup {"original_score"} |->
                    IF f = "original_score" THEN results[i].score
                    ELSE IF f = "score" THEN scores[i]
                    ELSE results[i][f]]])

\* group_step with the group's score taken from the retrieval score of its
\* first candidate and never raised.
group_step_first_score(groups, result, chunks_per_doc, reranking) ==
    LET doc_id == result.document_id
        known == \E j \in 1..Len(groups) : groups[j].document_id = doc_id
        fresh == [document_id |-> doc_id,
                  filename |-> result.filename,
                  type |-> result.type,
                  mongo_ref |-> result.mongo_ref,
                  is_chunked_document |-> result.is_chunk,
                  score |-> Get(result, "original_score", result.score),
                  original_score |->
                      IF reranking THEN Get(result, "original_score", result.score)
                      ELSE None,
                  chunks |-> <<>>]
        with_group == IF known THEN groups ELSE Append(groups, fresh)
        listed(g) ==
            IF result.is_chunk /\ Len(g.chunks) < chunks_per_doc
            THEN [g EXCEPT !.chunks = Append(@,
                    [vector_id |-> result.vector_id,
                     chunk_index |-> result.chunk_index,
                     score |-> result.score,
                     original_score |->
                         IF reranking THEN Get(result, "original_score", result.score)
                         ELSE None])]
            ELSE g
        scored(g) ==
            g
    IN  IF doc_id = None THEN groups
        ELSE [j \in 1..Len(with_group) |->
                 IF with_group[j].document_id = doc_id
                 THEN scored(listed(with_group[j]))
                 ELSE with_group[j]]

\* group_step with the cap on listed chunks off by one.
group_step_one_more(groups, result, chunks_per_doc, reranking) ==
    LET doc_id == result.document_id
        known == \E j \in 1..Len(groups) : groups[j].document_id = doc_id
        fresh == [document_id |-> doc_id,
                  filename |-> result.filename,
                  type |-> result.type,
                  mongo_ref |-> result.mongo_ref,
                  is_chunked_document |-> result.is_chunk,
                  score |-> result.score,
                  original_score |->
                      IF reranking THEN Get(result, "original_score", result.score)
                      ELSE None,
                  chunks |-> <<>>]
        with_group == IF known THEN groups ELSE Append(groups, fresh)
        listed(g) ==
            IF result.is_chunk /\ Len(g.chunks) <= chunks_per_doc
            THEN [g EXCEPT !.chunks = Append(@,
                    [vector_id |-> result.vector_id,
                     chunk_index |-> result.chunk_index,
                     score |-> result.score,
                     original_score |->
                         IF reranking THEN Get(result, "original_score", result.score)
                         ELSE None])]
            ELSE g
        scored(g) ==
            IF result.score > g.score
            THEN [g EXCEPT !.score = result.score,
                           !.original_score =
                               IF reranking /\ "original_score" \in DOMAIN result
                               THEN result.original_score ELSE @]
            ELSE g
    IN  IF doc_id = None THEN groups
        ELSE [j \in 1..Len(with_group) |->
                 IF with_group[j].document_id = doc_id
                 THEN scored(listed(with_group[j]))
                 ELSE with_group[j]]

\* group_step without the skip of candidates that name no document: such a
\* candidate gets a group of its own.
group_step_no_skip(groups, result, chunks_per_doc, reranking) ==
    LET doc_id == IF result.document_id = None THEN result.vector_id
                  ELSE result.document_id
        known == \E j \in 1..Len(groups) : groups[j].document_id = doc_id
        fresh == [document_id |-> doc_id,
                  filename |-> result.filename,
                  type |-> result.type,
                  mongo_ref |-> result.mongo_ref,
                  is_chunked_document |-> result.is_chunk,
                  score |-> result.score,
                  original_score |->
                      IF reranking THEN Get(result, "original_score", result.score)
                      ELSE None,
                  chunks |-> <<>>]
        with_group == IF known THEN groups ELSE Append(groups, fresh)
        listed(g) ==
            IF result.is_chunk /\ Len(g.chunks) < chunks_per_doc
            THEN [g EXCEPT !.chunks = Append(@,
                    [vector_id |-> result.vector_id,
                     chunk_index |-> result.chunk_index,
                     score |-> result.score,
                     original_score |->
                         IF reranking THEN Get(result, "original_score", result.score)
                         ELSE None])]
            ELSE g
        scored(g) ==
            IF result.score > g.score
            THEN [g EXCEPT !.score = result.score,
                           !.original_score =
                               IF reranking /\ "original_score" \in DOMAIN result
                               THEN result.original_score ELSE @]
            ELSE g
    IN       [j \in 1..Len(with_group) |->
                 IF with_group[j].document_id = doc_id
                 THEN scored(listed(with_group[j]))
                 ELSE with_group[j]]

\* One turn of the grouping loop: `groups` is the dict built so far, in
\* insertion order.
group_step(groups, result, chunks_per_doc, reranking) ==
    LET doc_id == result.document_id
        known == \E j \in 1..Len(groups) : groups[j].document_id = doc_id
        fresh == [document_id |-> doc_id,
                  filename |-> result.filename,
                  type |-> result.type,
                  mongo_ref |-> result.mongo_ref,
                  is_chunked_document |-> result.is_chunk,
                  score |-> result.score,
                  original_score |->
                      IF reranking THEN Get(result, "original_score", result.score)
                      ELSE None,
                  chunks |-> <<>>]
        with_group == IF known THEN groups ELSE Append(groups, fresh)
        listed(g) ==
            IF result.is_chunk /\ Len(g.chunks) < chunks_per_doc
            THEN [g EXCEPT !.chunks = Append(@,
                    [vector_id |-> result.vector_id,
                     chunk_index |-> result.chunk_index,
                     score |-> result.score,
                     original_score |->
                         IF reranking THEN Get(result, "original_score", result.score)
                         ELSE None])]
            ELSE g
        scored(g) ==
            IF result.score > g.score
            THEN [g EXCEPT !.score = result.score,
                           !.original_score =
                               IF reranking /\ "original_score" \in DOMAIN result
                               THEN result.original_score ELSE @]
            ELSE g
    IN  IF doc_id = None THEN groups
        ELSE [j \in 1..Len(with_group) |->
                 IF with_group[j].document_id = doc_id
                 THEN scored(listed(with_group[j]))
                 ELSE with_group[j]]

RECURSIVE group_loop(_, _, _, _)
group_loop(groups, results, chunks_per_doc, reranking) ==
    IF results = <<>> THEN groups
    ELSE group_loop(group_step(groups, Head(results), chunks_per_doc, reranking),
                    Tail(results), chunks_per_doc, reranking)

\* The grouping both chunk-aware variants end with: group by document_id,
\* sort the groups by score, keep `limit` of them.
group_by_document(results, limit, chunks_per_doc, reranking) ==
    Take(sort_by_score(group_loop(<<>>, results, chunks_per_doc, reranking)), limit)

\* What the serving framework answers when a handler raises.
InternalError == Response(500, [error |-> "Internal Server Error"])

NoQuery == Response(400, [error |-> "No 'file' or 'text' provided"])

\* int(request.form.get(name, default))
FormInt(value, default) == IF value = None THEN default ELSE value

DEFAULT_LIMIT == 5
HYBRID_DEFAULT_LIMIT == 10
DEFAULT_CHUNKS_PER_DOC == 3
MAX_DEFAULT_CANDIDATES == 20

\* The query of a search request: an image file that opens, one that does not,
\* the form field 'text', a file together with 'text', or nothing.
Queries == {"text", "image", "corrupt", "both", "none"}

has_file(q) == q \in {"image", "corrupt", "both"}
has_text(q) == q \in {"text", "both"}

\* The head every search variant but hybrid_search shares: a file is embedded
\* as an image (embed_image_file raises on bytes it cannot open, and nothing
\* catches it), otherwise the text is embedded, otherwise the request is
\* refused.  "ok" when the handler goes on to search the index.
query_stage(q) == 
    IF has_file(q) THEN (IF q = "corrupt" THEN "raise" ELSE "ok")
    ELSE IF has_text(q) THEN "ok" ELSE "refuse"

query_calls(q) ==
    IF has_file(q) THEN <<"embed_image_file">>
    ELSE IF has_text(q) THEN <<"embed_text">> ELSE <<>>

\* What a handler answers without searching, when its query stage is not "ok".
no_search(q) ==
    IF query_stage(q) = "raise"
    THEN [resp |-> InternalError, trace |-> query_calls(q)]
    ELSE [resp |-> NoQuery, trace |-> <<>>]

\* search: the /search handler, given the hits of its index search.
search_limit_plain(rq) == FormInt(rq.limit, DEFAULT_LIMIT)

search(rq, hits) ==
    IF query_stage(rq.query) # "ok" THEN no_search(rq.query)
    ELSE [resp |-> Response(200, [i \in 1..Len(hits) |-> plain_result(hits[i])]),
          trace |-> query_calls(rq.query) \o <<"search">>]

\* search_reranked: the /search_reranked handler, given the hits of its index
\* search and the scores the cross-encoder gives them.
search_limit_reranked(rq) ==
    LET limit == FormInt(rq.limit, DEFAULT_LIMIT)
    IN  FormInt(rq.candidates, Min(MAX_DEFAULT_CANDIDATES, limit * 3))

\* search_reranked without the guard that the reranker is loaded.
search_reranked_unguarded(pre, rq, hits, scores) ==
    LET limit == FormInt(rq.limit, DEFAULT_LIMIT)
        candidates_results == [i \in 1..Len(hits) |-> plain_result(hits[i])]
        calls == query_calls(rq.query) \o <<"search">>
    IN  IF query_stage(rq.query) # "ok" THEN no_search(rq.query)
        ELSE IF candidates_results = <<>>
        THEN [resp |-> Response(200, <<>>), trace |-> calls]
        ELSE IF ~pre.reranker
        THEN [resp |-> InternalError, trace |-> calls \o <<"rerank_results">>]
        ELSE [resp |-> Response(200, Take(rerank_results(candidates_results, scores), limit)),
              trace |-> calls \o <<"rerank_results">>]

search_reranked(pre, rq, hits, scores) ==
    LET limit == FormInt(rq.limit, DEFAULT_LIMIT)
        candidates_results == [i \in 1..Len(hits) |-> plain_result(hits[i])]
        calls == query_calls(rq.query) \o <<"search">>
    IN  IF query_stage(rq.query) # "ok" THEN no_search(rq.query)
        ELSE IF candidates_results = <<>>
        THEN [resp |-> Response(200, Take(candidates_results, limit)), trace |-> calls]
        ELSE IF ~pre.reranker
        THEN [resp |-> Response(200, Take(candidates_results, limit)), trace |-> calls]
        ELSE [resp |-> Response(200, Take(rerank_results(candidates_results, scores), limit)),
              trace |-> calls \o <<"rerank_results">>]

\* search_chunked: the /search_chunked handler.
search_limit_chunked(rq) ==
    LET limit == FormInt(rq.limit, DEFAULT_LIMIT)
    IN  IF rq.group_by_document THEN limit * 5 ELSE limit

search_chunked(rq, hits) ==
    LET limit == FormInt(rq.limit, DEFAULT_LIMIT)
        chunks_per_doc == FormInt(rq.chunks_per_doc, DEFAULT_CHUNKS_PER_DOC)
        results == [i \in 1..Len(hits) |-> chunk_result(hits[i])]
    IN  IF query_stage(rq.query) # "ok" THEN no_search(rq.query)
        ELSE [resp |-> Response(200,
                  IF ~rq.group_by_document
                  THEN Take(results, limit)
                  ELSE group_by_document(results, limit, chunks_per_doc, FALSE)),
              trace |-> query_calls(rq.query) \o <<"search">>]

\* search_limit_reranked_chunked asking for `candidates` points whether or not
\* the results are grouped.
search_limit_not_doubled(rq) ==
    LET limit == FormInt(rq.limit, DEFAULT_LIMIT)
    IN  FormInt(rq.candidates, Min(MAX_DEFAULT_CANDIDATES, limit * 3))

\* search_reranked_chunked: the /search_reranked_chunked handler, given the
\* hits of its index search and the scores the cross-encoder gives them.
search_limit_reranked_chunked(rq) ==
    LET limit == FormInt(rq.limit, DEFAULT_LIMIT)
        candidates == FormInt(rq.candidates, Min(MAX_DEFAULT_CANDIDATES, limit * 3))
    IN  IF rq.group_by_document THEN candidates * 2 ELSE candidates

search_reranked_chunked(pre, rq, hits, scores) ==
    LET limit == FormInt(rq.limit, DEFAULT_LIMIT)
        chunks_per_doc == FormInt(rq.chunks_per_doc, DEFAULT_CHUNKS_PER_DOC)
        found == [i \in 1..Len(hits) |-> chunk_result(hits[i])]
        results == IF pre.reranker THEN rerank_results(found, scores) ELSE found
        calls == query_calls(rq.query) \o <<"search">>
    IN  IF query_stage(rq.query) # "ok" THEN no_search(rq.query)
        ELSE IF hits = <<>>
        THEN [resp |-> Response(200, <<>>), trace |-> calls]
        ELSE [resp |-> Response(200,
                  IF ~rq.group_by_document
                  THEN Take(results, limit)
                  ELSE group_by_document(results, limit, chunks_per_doc, TRUE)),
              trace |-> IF pre.reranker THEN calls \o <<"rerank_results">> ELSE calls]

\* The fusion loop of hybrid_search over the dense hits: one entry per hit,
\* carrying the weighted dense score.
dense_entries(dense_hits, dense_weight) ==
    [i \in 1..Len(dense_hits) |->
        [vector_id |-> dense_hits[i].id,
         dense_score |-> dense_hits[i].score,
         sparse_score |-> 0,
         score |-> dense_weight * dense_hits[i].score,
         payload |-> dense_hits[i].payload]]

\* sparse_step with the sparse score overwriting the combined score of a point
\* already met in the dense hits, instead of adding to it.
sparse_step_overwrite(combined, hit, sparse_weight) ==
    IF \E j \in 1..Len(combined) : combined[j].vector_id = hit.id
    THEN [j \in 1..Len(combined) |->
             IF combined[j].vector_id = hit.id
             THEN [combined[j] EXCEPT !.sparse_score = hit.score,
                                      !.score = sparse_weight * hit.score]
             ELSE combined[j]]
    ELSE Append(combined,
                [vector_id |-> hit.id,
                 dense_score |-> 0,
                 sparse_score |-> hit.score,
                 score |-> sparse_weight * hit.score,
                 payload |-> hit.payload])

\* One turn of the fusion loop over the sparse hits: the hit's weighted score
\* is added to the entry of its point, or opens an entry of its own.
sparse_step(combined, hit, sparse_weight) ==
    IF \E j \in 1..Len(combined) : combined[j].vector_id = hit.id
    THEN [j \in 1..Len(combined) |->
             IF combined[j].vector_id = hit.id
             THEN [combined[j] EXCEPT !.sparse_score = hit.score,
                                      !.score = @ + sparse_weight * hit.score]
             ELSE combined[j]]
    ELSE Append(combined,
                [vector_id |-> hit.id,
                 dense_score |-> 0,
                 sparse_score |-> hit.score,
                 score |-> sparse_weight * hit.score,
                 payload |-> hit.payload])

RECURSIVE sparse_loop(_, _, _)
sparse_loop(combined, sparse_hits, sparse_weight) ==
    IF sparse_hits = <<>> THEN combined
    ELSE sparse_loop(sparse_step(combined, Head(sparse_hits), sparse_weight),
                     Tail(sparse_hits), sparse_weight)

\* The clamp of the requested weight to [0, 1].  Weights are counted in
\* WeightScale-ths, so 1.0 is WeightScale and every combined score is
\* WeightScale times the float the handler computes.
clamp_weight(w) == IF w < 0 THEN 0 ELSE IF w > WeightScale THEN WeightScale ELSE w

formatted_result(entry) ==
    [vector_id |-> entry.vector_id,
     score |-> entry.score,
     dense_score |-> entry.dense_score,
     sparse_score |-> entry.sparse_score,
     type |-> Get(entry.payload, "type", "None"),
     mongo_ref |-> Get(entry.payload, "mongo_ref", None),
     is_chunk |-> Get(entry.payload, "is_chunk", FALSE),
     document_id |-> Get(entry.payload, "document_id", None),
     chunk_index |-> Get(entry.payload, "chunk_index", None),
     filename |-> Get(entry.payload, "filename", [stem |-> <<"document_">>, ext |-> ".txt"])]

\* The fused, sorted and truncated result list of hybrid_search.
hybrid_results(rq, dense_hits, sparse_hits) ==
    LET limit == FormInt(rq.limit, HYBRID_DEFAULT_LIMIT)
        sparse_weight == clamp_weight(rq.sparse_weight)
        dense_weight == WeightScale - sparse_weight
        combined == sparse_loop(dense_entries(dense_hits, dense_weight),
                                sparse_hits, sparse_weight)
        results_list == Take(sort_by_score(combined), limit)
    IN  [i \in 1..Len(results_list) |-> formatted_result(results_list[i])]

\* hybrid_path with a request without 'text' handed to search() instead of
\* being refused.
hybrid_path_fallback(pre, rq, index_raises) ==
    IF ~has_text(rq.query) THEN "no_vectorizer"
    ELSE IF ~pre.sparse_vectorizer THEN "no_vectorizer"
    ELSE IF index_raises THEN "index_error"
    ELSE "fuse"

\* Where hybrid_search ends: it refuses a request without 'text', hands the
\* request to search() when the vectorizer is missing or an index search
\* raised, and fuses the two hit lists otherwise.
hybrid_path(pre, rq, index_raises) ==
    IF ~has_text(rq.query) THEN "refuse"
    ELSE IF ~pre.sparse_vectorizer THEN "no_vectorizer"
    ELSE IF index_raises THEN "index_error"
    ELSE "fuse"

\* hybrid_search with the exception of an index search left uncaught.
hybrid_search_uncaught(pre, rq, index_raises, dense_hits, sparse_hits, plain_hits) ==
    LET path == hybrid_path(pre, rq, index_raises)
        fallback == search(rq, plain_hits)
    IN  IF path = "refuse"
        THEN [resp |-> Response(400, [error |-> "Hybrid search requires a text query"]),
              trace |-> <<>>]
        ELSE IF path = "no_vectorizer"
        THEN fallback
        ELSE IF path = "index_error"
        THEN [resp |-> InternalError,
              trace |-> <<"embed_text", "generate_sparse_embedding", "search">>]
        ELSE [resp |-> Response(200, hybrid_results(rq, dense_hits, sparse_hits)),
              trace |-> <<"embed_text", "generate_sparse_embedding", "search", "search">>]

\* hybrid_search: the /hybrid_search handler.  `plain_hits` are the hits of
\* the index search search() makes when the handler falls back to it.
hybrid_search(pre, rq, index_raises, dense_hits, sparse_hits, plain_hits) ==
    LET path == hybrid_path(pre, rq, index_raises)
        fallback == search(rq, plain_hits)
    IN  IF path = "refuse"
        THEN [resp |-> Response(400, [error |-> "Hybrid search requires a text query"]),
              trace |-> <<>>]
        ELSE IF path = "no_vectorizer"
        THEN fallback
        ELSE IF path = "index_error"
        THEN [resp |-> fallback.resp,
              trace |-> <<"embed_text", "generate_sparse_embedding", "search">>
                        \o fallback.trace]
        ELSE [resp |-> Response(200, hybrid_results(rq, dense_hits, sparse_hits)),
              trace |-> <<"embed_text", "generate_sparse_embedding", "search", "search">>]

\* ------------------------------------------------------------------ delete

\* qdrant.delete by ids.
delete_points(idx, ids) == [i \in DOMAIN idx \ ids |-> idx[i]]

\* qdrant.scroll with an exact-match filter on a payload field: the ids of the
\* matching points.  The handlers read the first page only, of 1000 points;
\* the collections here never hold that many.
scroll(idx, key, value) ==
    {i \in DOMAIN idx : key \in DOMAIN idx[i].payload /\ idx[i].payload[key] = value}

\* delete_entry without the lookup of the point.
delete_entry_unchecked(idx, vector_id) ==
    [index |-> delete_points(idx, {vector_id}),
     resp |-> Response(200, [message |-> "Successfully deleted vector ID",
                             vector_id |-> vector_id]),
     trace |-> <<"delete">>]

\* delete_entry: the /delete/<vector_id> handler.
delete_entry(idx, vector_id) ==
    IF vector_id \notin DOMAIN idx
    THEN [index |-> idx,
          resp |-> Response(404, [error |-> "Vector ID not found"]),
          trace |-> <<"retrieve">>]
    ELSE [index |-> delete_points(idx, {vector_id}),
          resp |-> Response(200, [message |-> "Successfully deleted vector ID",
                                  vector_id |-> vector_id]),
          trace |-> <<"retrieve", "delete">>]

\* delete_document looking for the document's own point (not a chunk) under
\* the filename and for the points whose document_id is that point's id.
delete_document_by_point_id(idx, filename) ==
    LET matching_points == {i \in scroll(idx, "filename", filename) :
                               ~Get(idx[i].payload, "is_chunk", FALSE)}
        chunk_points(i) == scroll(idx, "document_id", i)
        vector_ids_to_delete ==
            matching_points \cup UNION {chunk_points(i) : i \in matching_points}
    IN  IF matching_points = {}
        THEN [index |-> idx,
              resp |-> Response(404, [message |-> "No entries found for filename",
                                      deleted_count |-> 0]),
              trace |-> <<"scroll">>]
        ELSE [index |-> delete_points(idx, vector_ids_to_delete),
              resp |-> Response(200, [message |-> "Successfully deleted document",
                                      deleted_count |-> Cardinality(vector_ids_to_delete),
                                      vector_ids |-> vector_ids_to_delete]),
              trace |-> <<"scroll">>
                        \o [n \in 1..Cardinality(matching_points) |-> "scroll"]
                        \o <<"delete">>]

\* A page of scroll results as the list the handler walks: the index lists
\* points by id.
RECURSIVE in_order(_)
in_order(ids) ==
    IF ids = {} THEN <<>>
    ELSE LET first == CHOOSE x \in ids : \A y \in ids : x <= y
         IN  <<first>> \o in_order(ids \ {first})

\* extend_with_chunks adding every chunk id it finds, listed already or not.
RECURSIVE extend_with_chunks_unfiltered(_, _, _)
extend_with_chunks_unfiltered(idx, points, vector_ids_to_delete) ==
    IF points = <<>> THEN vector_ids_to_delete
    ELSE LET payload == idx[Head(points)].payload
             chunk_points ==
                 IF "mongo_ref" \in DOMAIN payload
                 THEN in_order(scroll(idx, "document_id", payload.mongo_ref))
                 ELSE <<>>
         IN  extend_with_chunks_unfiltered(idx, Tail(points),
                                           vector_ids_to_delete \o chunk_points)

\* The loop of delete_document over the matching points: for each that has a
\* mongo_ref, the ids of the points whose document_id is that mongo_ref are
\* added to the list, but for those the list holds already.
RECURSIVE extend_with_chunks(_, _, _)
extend_with_chunks(idx, points, vector_ids_to_delete) ==
    IF points = <<>> THEN vector_ids_to_delete
    ELSE LET payload == idx[Head(points)].payload
             chunk_points ==
                 IF "mongo_ref" \in DOMAIN payload
                 THEN in_order(scroll(idx, "document_id", payload.mongo_ref))
                 ELSE <<>>
             unlisted(id) ==
                 \A k \in 1..Len(vector_ids_to_delete) : vector_ids_to_delete[k] # id
             chunk_ids == SelectSeq(chunk_points, unlisted)
         IN  extend_with_chunks(idx, Tail(points), vector_ids_to_delete \o chunk_ids)

\* delete_document: the /delete_document/<filename> handler.  It deletes the
\* points stored under the filename and, for each of them that has a
\* mongo_ref, the points whose document_id is that mongo_ref.
delete_document(idx, filename) ==
    LET matching_points == in_order(scroll(idx, "filename", filename))
        referring == {k \in 1..Len(matching_points) :
                         "mongo_ref" \in DOMAIN idx[matching_points[k]].payload}
        vector_ids_to_delete ==
            extend_with_chunks(idx, matching_points, matching_points)
    IN  IF matching_points = <<>>
        THEN [index |-> idx,
              resp |-> Response(404, [message |-> "No entries found for filename",
                                      deleted_count |-> 0]),
              trace |-> <<"scroll">>]
        ELSE [index |-> delete_points(idx, {vector_ids_to_delete[k] :
                                               k \in 1..Len(vector_ids_to_delete)}),
              resp |-> Response(200, [message |-> "Successfully deleted document",
                                      deleted_count |-> Len(vector_ids_to_delete),
                                      vector_ids |-> vector_ids_to_delete]),
              trace |-> <<"scroll">>
                        \o [n \in 1..Cardinality(referring) |-> "scroll"]
                        \o <<"delete">>]

\* ------------------------------------------------------------ transitions

NoRequest == [op |-> "none"]

Init ==
    /\ index = <<>>
    /\ nextId = 1
    /\ preloaded \in [sparse_vectorizer : BOOLEAN, reranker : {TRUE}]
    /\ req = NoRequest
    /\ resp = Response(0, <<>>)
    /\ trace = <<>>

\* One /embed request.  It is served while the id supply lasts: embed draws
\* two uuids on entry and one more per chunk.
EmbedFrom(requests, max_ids) ==
    /\ nextId + 1 <= max_ids
    /\ \E r \in requests :
        \E chunks \in chunker_outcomes(r) :
            LET res == embed(index, nextId, preloaded, r, chunks) IN
            /\ res.nextId - 1 <= max_ids
            /\ index' = res.index
            /\ nextId' = res.nextId
            /\ req' = [op |-> "embed", r |-> r, chunks |-> chunks]
            /\ resp' = res.resp
            /\ trace' = res.trace
            /\ UNCHANGED preloaded

Embed == EmbedFrom(EmbedRequests, MaxIds)

NextIngest == Embed

\* The service under ingest requests of every kind.
SpecIngest == Init /\ [][NextIngest]_vars

\* Ingest requests that take the chunked path, one document after another.
EmbedChunked == EmbedFrom({r \in EmbedRequests : reaches_chunker(r)}, MaxChunkedIds)

NextChunked == EmbedChunked

SpecChunked == Init /\ [][NextChunked]_vars

\* ------------------------------------------------------ search transitions

Upload(stem, ext, content_type, content) ==
    [src |-> "file", filename |-> [stem |-> <<stem>>, ext |-> ext],
     content_type |-> content_type, content |-> content, text |-> <<>>,
     opt |-> [use_chunking |-> TRUE, chunk_size |-> 1, use_hybrid |-> TRUE]]

\* The collections the searches run on: each is what embed leaves behind after
\* a few uploads (an image, a one-character text, a text that is chunked).
an_image == [r |-> Upload("a", ".png", "image/png", [kind |-> "image", text |-> <<>>]),
             chunks |-> <<>>]
a_short_text == [r |-> Upload("b", ".txt", "text/plain", [kind |-> "utf-8", text |-> <<"a">>]),
                 chunks |-> <<>>]
a_long_text == [r |-> Upload("b", ".txt", "text/plain",
                             [kind |-> "utf-8", text |-> <<"a", "a">>]),
                chunks |-> <<"chunk", "chunk">>]

SeedScripts ==
    { <<an_image, a_long_text>>,
      <<a_short_text, a_long_text>>,
      <<a_short_text, a_short_text, an_image>> }

RECURSIVE ingest_all(_, _, _, _)
ingest_all(idx, nid, pre, script) ==
    IF script = <<>> THEN [index |-> idx, nextId |-> nid]
    ELSE LET res == embed(idx, nid, pre, Head(script).r, Head(script).chunks)
         IN  ingest_all(res.index, res.nextId, pre, Tail(script))

\* The deployments searched: everything loaded, the reranker missing, the
\* sparse vectorizer missing.
InitSearch ==
    /\ preloaded \in {[sparse_vectorizer |-> TRUE, reranker |-> TRUE],
                      [sparse_vectorizer |-> TRUE, reranker |-> FALSE],
                      [sparse_vectorizer |-> FALSE, reranker |-> TRUE]}
    /\ \E script \in SeedScripts :
          LET seeded == ingest_all(<<>>, 1, preloaded, script)
          IN  index = seeded.index /\ nextId = seeded.nextId
    /\ req = NoRequest
    /\ resp = Response(0, <<>>)
    /\ trace = <<>>

LimitField == {None} \cup 1..MaxLimit

SearchRequests == [query : Queries, limit : LimitField]

ChunkedRequests ==
    [query : Queries, limit : LimitField, group_by_document : BOOLEAN,
     chunks_per_doc : 0..MaxChunksPerDoc]

RerankedRequests ==
    [query : Queries, limit : LimitField, candidates : {None} \cup 1..MaxCandidates]

RerankedChunkedRequests ==
    [query : Queries, limit : LimitField, candidates : {None} \cup 1..MaxCandidates,
     group_by_document : BOOLEAN, chunks_per_doc : 0..MaxChunksPerDoc]

HybridRequests ==
    [query : Queries, limit : LimitField,
     sparse_weight : (-1)..(WeightScale + 1), min_score : Scores]

AnyVector == {"", "dense", "sparse"}

\* The hits a handler's index search returns (none when it never searches).
hits_for(rq, limit) ==
    IF query_stage(rq.query) = "ok"
    THEN qdrant_search(index, AnyVector, limit, None)
    ELSE {<<>>}

\* A search handler reads the collection and changes nothing: every request
\* is served from the collection as seeded.
Served(op, rq, answers, out) ==
    /\ req' = [op |-> op, r |-> rq, answers |-> answers]
    /\ resp' = out.resp
    /\ trace' = out.trace
    /\ UNCHANGED <<index, nextId, preloaded>>

Search ==
    /\ req = NoRequest
    /\ \E rq \in SearchRequests :
        \E hits \in hits_for(rq, search_limit_plain(rq)) :
            Served("search", rq, [hits |-> hits], search(rq, hits))

SearchChunked ==
    /\ req = NoRequest
    /\ \E rq \in ChunkedRequests :
        \E hits \in hits_for(rq, search_limit_chunked(rq)) :
            Served("search_chunked", rq, [hits |-> hits], search_chunked(rq, hits))

SearchReranked ==
    /\ req = NoRequest
    /\ \E rq \in RerankedRequests :
        \E hits \in hits_for(rq, search_limit_reranked(rq)) :
            \E scores \in IF preloaded.reranker
                          THEN [1..Len(hits) -> RerankScores]
                          ELSE {<<>>} :
                Served("search_reranked", rq,
                       [hits |-> hits, scores |-> scores,
                        search_limit |-> search_limit_reranked(rq)],
                       search_reranked(preloaded, rq, hits, scores))

SearchRerankedChunked ==
    /\ req = NoRequest
    /\ \E rq \in RerankedChunkedRequests :
        \E hits \in hits_for(rq, search_limit_reranked_chunked(rq)) :
            \E scores \in IF preloaded.reranker
                          THEN [1..Len(hits) -> RerankScores]
                          ELSE {<<>>} :
                Served("search_reranked_chunked", rq,
                       [hits |-> hits, scores |-> scores,
                        search_limit |-> search_limit_reranked_chunked(rq)],
                       search_reranked_chunked(preloaded, rq, hits, scores))

HybridSearch ==
    /\ req = NoRequest
    /\ \E rq \in HybridRequests : \E index_raises \in BOOLEAN :
        LET path == hybrid_path(preloaded, rq, index_raises)
            search_limit == FormInt(rq.limit, HYBRID_DEFAULT_LIMIT) * 3
        IN  /\ path \in {"refuse", "no_vectorizer"} => ~index_raises
            /\ \E dense_hits \in IF path = "fuse"
                                 THEN qdrant_search(index, {"", "dense"}, search_limit,
                                                    rq.min_score)
                                 ELSE {<<>>} :
               \E sparse_hits \in IF path = "fuse"
                                  THEN qdrant_search(index, {"sparse"}, search_limit,
                                                     rq.min_score)
                                  ELSE {<<>>} :
               \E plain_hits \in IF path \in {"no_vectorizer", "index_error"}
                                 THEN hits_for(rq, search_limit_plain(rq))
                                 ELSE {<<>>} :
                   Served("hybrid_search", rq,
                          [index_raises |-> index_raises, dense_hits |-> dense_hits,
                           sparse_hits |-> sparse_hits, plain_hits |-> plain_hits,
                           plain_limit |-> search_limit_plain(rq)],
                          hybrid_search(preloaded, rq, index_raises, dense_hits,
                                        sparse_hits, plain_hits))

NextSearch ==
    \/ Search
    \/ SearchReranked
    \/ SearchChunked
    \/ SearchRerankedChunked
    \/ HybridSearch

\* The search handlers over the seeded collections.
SpecSearch == InitSearch /\ [][NextSearch]_vars

\* ---------------------------------------------------- rerank transitions

\* The candidate lists handed to rerank_results: results of distinct points,
\* in retrieval order.
Candidates ==
    UNION { { [k \in 1..n |-> [vector_id |-> c[k][1], score |-> c[k][2]]] :
                c \in { g \in [1..n -> (1..MaxRerankLen) \X Scores] :
                          /\ \A a, b \in 1..n : a # b => g[a][1] # g[b][1]
                          /\ NonIncreasing([k \in 1..n |-> g[k][2]]) } } :
            n \in 0..MaxRerankLen }

InitRerank ==
    /\ index = <<>>
    /\ nextId = 1
    /\ preloaded = [sparse_vectorizer |-> TRUE, reranker |-> TRUE]
    /\ req = NoRequest
    /\ resp = Response(0, <<>>)
    /\ trace = <<>>

\* rerank_results on a candidate list, the cross-encoder scoring each pair as
\* it likes.
Rerank ==
    /\ req = NoRequest
    /\ \E results \in Candidates :
        \E scores \in [1..Len(results) -> RerankScores] :
            /\ req' = [op |-> "rerank_results", results |-> results, scores |-> scores]
            /\ resp' = Response(200, rerank_results(results, scores))
            /\ trace' = <<"rerank_results">>
            /\ UNCHANGED <<index, nextId, preloaded>>

\* rerank_results on its own output with the same query: the cross-encoder
\* reads the same (query, content) pairs, so every candidate scores as before.
RerankAgain ==
    /\ req.op = "rerank_results"
    /\ LET scores == [i \in 1..Len(resp.body) |-> resp.body[i].score]
       IN  /\ req' = [op |-> "rerank_again", results |-> resp.body, scores |-> scores]
           /\ resp' = Response(200, rerank_results(resp.body, scores))
           /\ trace' = trace \o <<"rerank_results">>
           /\ UNCHANGED <<index, nextId, preloaded>>

NextRerank == Rerank \/ RerankAgain

SpecRerank == InitRerank /\ [][NextRerank]_vars

\* ---------------------------------------------------- delete transitions

\* The uploads the deletions follow: an image, a text stored whole, the same
\* file name with a text that is chunked, and a chunked text under another
\* name (recognised by its content type).
DeleteCorpus ==
    { Upload("a", ".png", "image/png", [kind |-> "image", text |-> <<>>]),
      Upload("b", ".txt", "text/plain", [kind |-> "utf-8", text |-> <<"a">>]),
      Upload("b", ".txt", "text/plain", [kind |-> "utf-8", text |-> <<"a", "a">>]),
      Upload("c", ".pdf", "text/plain", [kind |-> "utf-8", text |-> <<"a", "a">>]) }

EmbedBeforeDelete == EmbedFrom(DeleteCorpus, MaxDeleteIds)

\* DELETE /delete/<vector_id>, for an id in use or the next one not yet drawn.
DeleteEntry ==
    \E vector_id \in 1..nextId :
        LET out == delete_entry(index, vector_id) IN
        /\ index' = out.index
        /\ req' = [op |-> "delete_entry", vector_id |-> vector_id]
        /\ resp' = out.resp
        /\ trace' = out.trace
        /\ UNCHANGED <<nextId, preloaded>>

\* DELETE /delete_document/<filename>
DeleteDocument ==
    \E filename \in Filenames :
        LET out == delete_document(index, filename) IN
        /\ index' = out.index
        /\ req' = [op |-> "delete_document", filename |-> filename]
        /\ resp' = out.resp
        /\ trace' = out.trace
        /\ UNCHANGED <<nextId, preloaded>>

NextDelete == EmbedBeforeDelete \/ DeleteEntry \/ DeleteDocument

\* Ingests and deletions in any order.
SpecDelete == Init /\ [][NextDelete]_vars

\* ---------------------------------------------------- the sparse vectorizer

SPARSE_VECTOR_SIZE == 1024

\* The sizes a fitted vocabulary can have: max_features caps it at
\* SPARSE_VECTOR_SIZE, and a small corpus gives fewer terms.
VocabularySizes == {1, SPARSE_VECTOR_SIZE - 1, SPARSE_VECTOR_SIZE}

\* initialize_sparse_vectorizer: a TfidfVectorizer that has not been fitted
\* (it has no vocabulary_).
initialize_sparse_vectorizer == [vocabulary |-> None, documents |-> {}]

\* np.zeros(SPARSE_VECTOR_SIZE)
zero_vector == [dim |-> SPARSE_VECTOR_SIZE, zero |-> TRUE]

\* generate_sparse_embedding with fit_transform in the place of transform: the
\* vectorizer is fitted on the one text, which is no stored point.
generate_sparse_embedding_refit(text, vectorizer, seen) ==
    IF text = <<>>
    THEN [embedding |-> zero_vector, vectorizer |-> vectorizer]
    ELSE [embedding |-> [dim |-> 1, zero |-> FALSE],
          vectorizer |-> [vocabulary |-> 1, documents |-> {None}]]

\* generate_sparse_embedding: the vector and the vectorizer after the call.  A
\* vector is its length and whether it is all zeros; `seen` says whether the
\* vocabulary holds a term of the text.  transform gives one column per term
\* of the fitted vocabulary and raises on a vectorizer that was never fitted.
generate_sparse_embedding(text, vectorizer, seen) ==
    IF text = <<>>
    THEN [embedding |-> zero_vector, vectorizer |-> vectorizer]
    ELSE IF vectorizer.vocabulary = None
    THEN [embedding |-> zero_vector, vectorizer |-> vectorizer]
    ELSE [embedding |-> [dim |-> vectorizer.vocabulary, zero |-> ~seen],
          vectorizer |-> vectorizer]

\* update_vectorizer_vocabulary: fit on the corpus.  The terms the corpus
\* gives are not looked into: `size` is how many the fit keeps.
update_vectorizer_vocabulary(vectorizer, documents, size) ==
    [vocabulary |-> size, documents |-> documents]

\* ---------------------------------------------- startup and serving

MaxThreads == 2
MaxServeIds == 3

Threads == 1..MaxThreads

\* `preloaded` as the module sets it: every entry None.
nothing_loaded ==
    [sparse_vectorizer |-> FALSE, reranker |-> FALSE,
     tfidf |-> initialize_sparse_vectorizer]

\* load_models: every model loaded, the vectorizer not yet fitted.
load_models ==
    [sparse_vectorizer |-> TRUE, reranker |-> TRUE,
     tfidf |-> initialize_sparse_vectorizer]

\* The texts the startup block samples: the previews of the text points on the
\* first page of the collection (100 points; the collections here are
\* smaller).  embed stores the head of the text as the preview.
sample_texts(idx) ==
    {i \in DOMAIN idx : Get(idx[i].payload, "type", "") = "text"}

\* A point written before filenames were stored: a preview and no filename.
legacy_point == [vector |-> {""}, payload |-> [type |-> "text", preview |-> <<"a">>]]

\* fix_missing_filenames: every point with a preview and no filename gets the
\* filename embed would have made up for the preview.
fix_missing_filenames(idx) ==
    LET to_fix == {i \in DOMAIN idx :
                      /\ "filename" \notin DOMAIN idx[i].payload
                      /\ Get(idx[i].payload, "preview", <<>>) # <<>>}
        fixed(i) ==
            [vector |-> idx[i].vector,
             payload |->
                [k \in DOMAIN idx[i].payload \cup {"filename"} |->
                    IF k = "filename"
                    THEN generated_filename(idx[i].payload.preview)
                    ELSE idx[i].payload[k]]]
    IN  [index |-> upsert(idx, [i \in to_fix |-> fixed(i)]),
         resp |-> Response(200, [fixed_count |-> Cardinality(to_fix)])]

\* list_entries: one item per point of the first page.
list_entries(idx) ==
    [index |-> idx, resp |-> Response(200, DOMAIN idx)]

\* The collections the service can find at startup: none yet, or what an
\* earlier run left behind.
StartCollections ==
    {[index |-> <<>>, nextId |-> 1],
     [index |-> [i \in {1} |-> legacy_point], nextId |-> 2],
     ingest_all(<<>>, 1, load_models, <<a_short_text>>)}

\* The requests served: an ingest of an image or of a text stored whole, the
\* searches for a text (hybrid_search for the empty text too), the deletions,
\* the utilities.
ServeUploads ==
    { Upload("a", ".png", "image/png", [kind |-> "image", text |-> <<>>]),
      Upload("b", ".txt", "text/plain", [kind |-> "utf-8", text |-> <<"a">>]) }

ServeRequests ==
    {[op |-> "embed", r |-> r] : r \in ServeUploads}
    \cup {[op |-> h, text |-> <<"a">>] :
            h \in {"search", "search_reranked", "search_chunked",
                   "search_reranked_chunked", "hybrid_search"}}
    \cup {[op |-> "hybrid_search", text |-> <<>>]}
    \cup {[op |-> "delete_entry", vector_id |-> v] : v \in {2, MaxServeIds}}
    \cup {[op |-> "delete_document", filename |-> f] :
            f \in {g \in Filenames : g.ext = ".txt"}}
    \cup {[op |-> "fix_missing_filenames"], [op |-> "list_entries"]}

\* The last answer the server gave: the handler, the status, and the text and
\* the vector of its generate_sparse_embedding call, if any.
Answer(op, status, sparse_text, sparse) ==
    [op |-> op, status |-> status, sparse_text |-> sparse_text, sparse |-> sparse]

InitStartup ==
    /\ \E c \in StartCollections : index = c.index /\ nextId = c.nextId
    /\ preloaded = nothing_loaded
    /\ req = [t \in Threads |-> NoRequest]
    /\ resp = Answer("none", 0, <<>>, <<>>)
    /\ trace = <<>>

\* __main__: PRELOAD_MODELS is set, so the models are loaded first.
LoadModels ==
    /\ trace = <<>>
    /\ preloaded' = load_models
    /\ trace' = <<"load_models">>
    /\ UNCHANGED <<index, nextId, req, resp>>

\* __main__: the vectorizer is fitted on the sampled texts, if there are any.
\* A scroll or a fit that raises is caught and leaves the vectorizer as it was.
SeedVectorizer ==
    /\ trace = <<"load_models">>
    /\ \E scroll_raises, fit_raises \in BOOLEAN : \E size \in VocabularySizes :
        LET documents == sample_texts(index)
            fits == ~scroll_raises /\ documents # {}
        IN  /\ fit_raises => fits
            /\ size # 1 => (fits /\ ~fit_raises)
            /\ preloaded' =
                 IF fits /\ ~fit_raises
                 THEN [preloaded EXCEPT !.tfidf =
                          update_vectorizer_vocabulary(preloaded.tfidf, documents, size)]
                 ELSE preloaded
            /\ trace' = trace \o <<"scroll">>
                        \o (IF fits THEN <<"update_vectorizer_vocabulary">> ELSE <<>>)
    /\ UNCHANGED <<index, nextId, req, resp>>

\* __main__: ensure_collection_exists, then app.run.
Run ==
    /\ Len(trace) >= 2
    /\ trace[Len(trace)] # "app.run"
    /\ trace' = trace \o <<"app.run">>
    /\ UNCHANGED <<index, nextId, preloaded, req, resp>>

Serving == trace # <<>> /\ trace[Len(trace)] = "app.run"

\* A request arrives and a thread of the server takes it.
Begin(t) ==
    /\ Serving
    /\ req[t] = NoRequest
    /\ \E rq \in ServeRequests : req' = [req EXCEPT ![t] = rq]
    /\ UNCHANGED <<index, nextId, preloaded, resp, trace>>

\* Whether embed stores the upload as a single text point.
single_text(r) ==
    /\ ~(r.opt.use_chunking /\ Len(ingest_text(r)) > r.opt.chunk_size)
    /\ \/ r.src = "text"
       \/ /\ r.src = "file"
          /\ file_kind(r.content_type, r.filename) = "text"
          /\ r.content.kind \in {"utf-8", "utf-16"}
          /\ strip(r.content.text) # <<>>

\* The text the handler calls generate_sparse_embedding on, if it does: embed
\* on the text of a single point when hybrid is asked for, hybrid_search on
\* its query, both only when the vectorizer is loaded.
sparse_call(rq, pre) ==
    IF rq.op = "embed"
    THEN IF single_text(rq.r) /\ rq.r.opt.use_hybrid /\ pre.sparse_vectorizer
         THEN <<ingest_text(rq.r)>>
         ELSE <<>>
    ELSE IF rq.op = "hybrid_search" /\ pre.sparse_vectorizer
         THEN <<rq.text>>
         ELSE <<>>

\* What the handler does to the collection, and its answer.
served(rq, idx, nid, pre) ==
    IF rq.op = "embed"
    THEN LET out == embed(idx, nid, pre, rq.r, <<>>)
         IN  [index |-> out.index, nextId |-> out.nextId, resp |-> out.resp]
    ELSE IF rq.op = "delete_entry"
    THEN LET out == delete_entry(idx, rq.vector_id)
         IN  [index |-> out.index, nextId |-> nid, resp |-> out.resp]
    ELSE IF rq.op = "delete_document"
    THEN LET out == delete_document(idx, rq.filename)
         IN  [index |-> out.index, nextId |-> nid, resp |-> out.resp]
    ELSE IF rq.op = "fix_missing_filenames"
    THEN LET out == fix_missing_filenames(idx)
         IN  [index |-> out.index, nextId |-> nid, resp |-> out.resp]
    ELSE IF rq.op = "list_entries"
    THEN LET out == list_entries(idx)
         IN  [index |-> out.index, nextId |-> nid, resp |-> out.resp]
    ELSE [index |-> idx, nextId |-> nid, resp |-> Response(200, <<>>)]

\* The thread runs its handler to the end.  What the searches return is left
\* to SpecSearch; here a handler is what it does to the shared state: the
\* collection, and the vectorizer it hands to generate_sparse_embedding.
Finish(t) ==
    /\ req[t] # NoRequest
    /\ \E seen \in BOOLEAN :
        LET rq == req[t]
            call == sparse_call(rq, preloaded)
            sparse == generate_sparse_embedding(call[1], preloaded.tfidf, seen)
            out == served(rq, index, nextId, preloaded)
        IN  /\ call = <<>> => seen
            /\ out.nextId - 1 <= MaxServeIds
            /\ index' = out.index
            /\ nextId' = out.nextId
            /\ preloaded' = IF call = <<>>
                            THEN preloaded
                            ELSE [preloaded EXCEPT !.tfidf = sparse.vectorizer]
            /\ resp' = Answer(rq.op, out.resp.status, call,
                               IF call = <<>> THEN <<>> ELSE <<sparse.embedding>>)
            /\ req' = [req EXCEPT ![t] = NoRequest]
    /\ UNCHANGED trace

NextServe ==
    \/ LoadModels
    \/ SeedVectorizer
    \/ Run
    \/ \E t \in Threads : Begin(t)
    \/ \E t \in Threads : Finish(t)

\* The service from its start: the models are loaded, the vectorizer is
\* seeded, and then the threads of the server take requests concurrently.
SpecServe == InitStartup /\ [][NextServe]_vars

\* ------------------------------------------- chunked ingest, step by step

MaxStepIds == 8

\* The uploads that reach embed_chunked_text: a text file and inline texts
\* longer than a chunk, one of them blank (the chunker answers no chunk).
ChunkedUploads ==
    { r \in EmbedRequests :
        /\ reaches_chunker(r)
        /\ r.opt.chunk_size = 1
        /\ r.opt.use_hybrid
        /\ Len(ingest_text(r)) = 2
        /\ r.src = "file" => (r.filename.ext = ".txt" /\ r.content_type = "text/plain") }

\* embed_chunked_text's loop after it has embedded a chunk and built its
\* point with the point upserted at once.
chunk_embedded_upsert(idx, point) == upsert(idx, point)

\* embed_chunked_text's loop after it has embedded a chunk and built its
\* point: the point joins chunk_points and nothing is written.
chunk_embedded(idx, point) == idx

\* The points embed_chunked_text builds for the call in progress.
chunk_points_of(call) ==
    embed(<<>>, call.nid0, preloaded, call.r, call.chunks).index

\* embed is called and reaches embed_chunked_text, which calls chunk_text.
BeginChunked ==
    /\ req.op = "embed_chunked_text" => req.pc = "done"
    /\ nextId + 1 <= MaxStepIds
    /\ \E r \in ChunkedUploads : \E chunks \in chunker_outcomes(r) :
        /\ nextId + 1 + Len(chunks) <= MaxStepIds
        /\ req' = [op |-> "embed_chunked_text", r |-> r, chunks |-> chunks,
                   nid0 |-> nextId, document_id |-> nextId, embedded |-> 0,
                   pc |-> "loop"]
        /\ nextId' = nextId + 2
        /\ trace' = <<"chunk_text">>
    /\ resp' = Response(0, <<>>)
    /\ UNCHANGED <<index, preloaded>>

\* The chunker gave no chunk: 400, before anything is embedded.
NoChunks ==
    /\ req # NoRequest /\ req.pc = "loop"
    /\ req.chunks = <<>>
    /\ resp' = embed(index, req.nid0, preloaded, req.r, req.chunks).resp
    /\ req' = [req EXCEPT !.pc = "done"]
    /\ UNCHANGED <<index, nextId, preloaded, trace>>

\* One turn of the loop: a uuid is drawn, the chunk is embedded, its point is
\* built.  embed_text may raise; nothing catches it and the request ends.
EmbedChunk ==
    /\ req # NoRequest /\ req.pc = "loop"
    /\ req.embedded < Len(req.chunks)
    /\ nextId' = nextId + 1
    /\ trace' = trace \o <<"embed_text">>
    /\ \E raises \in BOOLEAN :
        IF raises
        THEN /\ resp' = InternalError
             /\ req' = [req EXCEPT !.pc = "done"]
             /\ UNCHANGED index
        ELSE /\ index' = chunk_embedded(index,
                            [i \in {nextId} |-> chunk_points_of(req)[nextId]])
             /\ req' = [req EXCEPT !.embedded = @ + 1]
             /\ UNCHANGED resp
    /\ UNCHANGED preloaded

\* Every chunk is embedded: the single upsert, and the answer.
UpsertChunks ==
    /\ req # NoRequest /\ req.pc = "loop"
    /\ req.chunks # <<>>
    /\ req.embedded = Len(req.chunks)
    /\ LET out == embed(index, req.nid0, preloaded, req.r, req.chunks)
       IN  /\ index' = out.index
           /\ resp' = out.resp
           /\ trace' = trace \o <<"upsert">>
    /\ req' = [req EXCEPT !.pc = "done"]
    /\ UNCHANGED <<nextId, preloaded>>

NextSteps == BeginChunked \/ NoChunks \/ EmbedChunk \/ UpsertChunks

\* Chunked ingests, one after another, each taken a step at a time.
SpecSteps == Init /\ [][NextSteps]_vars

\* ------------------------------------------------------ claims: searching

\* The score the hit list gives the point, 0 when the point is not in it.
HitScore(hits, id) ==
    IF \E k \in 1..Len(hits) : hits[k].id = id
    THEN (CHOOSE x \in {hits[k].score : k \in {j \in 1..Len(hits) : hits[j].id = id}} : TRUE)
    ELSE 0

\* The requested sparse weight, held to [0, 1] (in WeightScale-ths).
RequestedSparseWeight ==
    IF req.r.sparse_weight < 0 THEN 0
    ELSE IF req.r.sparse_weight > WeightScale THEN WeightScale
    ELSE req.r.sparse_weight

\* hybrid_search answered with fused results: the request has a text query,
\* the vectorizer is loaded and no index search raised.
HybridFused ==
    /\ req.op = "hybrid_search"
    /\ req.r.query \in {"text", "both"}
    /\ preloaded.sparse_vectorizer
    /\ ~req.answers.index_raises

\* C1: every result hybrid_search returns carries the dense score of its point
\* in the dense hits (0 when only the sparse hits hold it), the sparse score of
\* its point in the sparse hits (0 when only the dense hits hold it), and the
\* combined score dense_weight*dense_score + sparse_weight*sparse_score with
\* dense_weight = 1 - sparse_weight.
C1_HybridScore ==
    HybridFused =>
        /\ resp.status = 200
        /\ \A i \in 1..Len(resp.body) :
              LET x == resp.body[i]
                  sparse_weight == RequestedSparseWeight
                  dense_weight == WeightScale - sparse_weight
              IN  /\ x.dense_score = HitScore(req.answers.dense_hits, x.vector_id)
                  /\ x.sparse_score = HitScore(req.answers.sparse_hits, x.vector_id)
                  /\ x.score = dense_weight * x.dense_score + sparse_weight * x.sparse_score

\* C1's case: fused results under a weight strictly between 0 and 1, one of a
\* point in both hit lists with both scores positive, one of a point only in
\* the sparse hits.
C1_Witness ==
    /\ HybridFused
    /\ RequestedSparseWeight \notin {0, WeightScale}
    /\ \E i, j \in 1..Len(resp.body) :
          /\ resp.body[i].dense_score > 0 /\ resp.body[i].sparse_score > 0
          /\ \A k \in 1..Len(req.answers.dense_hits) :
                req.answers.dense_hits[k].id # resp.body[j].vector_id
          /\ resp.body[j].sparse_score > 0

\* A chunk-aware search answered with groups.
Grouped ==
    /\ req.op \in {"search_chunked", "search_reranked_chunked"}
    /\ req.r.query \in {"text", "image", "both"}
    /\ req.r.group_by_document
    /\ req.answers.hits # <<>>

Reranked == req.op = "search_reranked_chunked" /\ preloaded.reranker

\* The document of the k-th candidate (None when its payload names none), and
\* the score it enters grouping with: the cross-encoder's when the candidates
\* were reranked, the retrieval score otherwise.
CandidateDoc(k) ==
    LET payload == req.answers.hits[k].payload
    IN  IF "document_id" \in DOMAIN payload THEN payload.document_id ELSE None

CandidateScore(k) ==
    IF Reranked THEN req.answers.scores[k] ELSE req.answers.hits[k].score

CandidatesOf(doc) == {k \in 1..Len(req.answers.hits) : CandidateDoc(k) = doc}

\* C2: in grouped output every group's score is the maximum score among all
\* candidates of its document, listed in its chunks or not; after reranking
\* the maximum is over the reranked scores.
C2_GroupScoreIsMax ==
    Grouped =>
        /\ resp.status = 200
        /\ \A i \in 1..Len(resp.body) :
              LET g == resp.body[i]
                  scores == {CandidateScore(k) : k \in CandidatesOf(g.document_id)}
              IN  /\ g.score \in scores
                  /\ \A x \in scores : x <= g.score

\* C2's case: reranked groups, one of a document with more candidates than
\* listed chunks, whose best reranked score is not its best retrieval score.
C2_Witness ==
    /\ Grouped /\ Reranked
    /\ \E i \in 1..Len(resp.body) :
          LET g == resp.body[i]
              members == CandidatesOf(g.document_id)
          IN  /\ Cardinality(members) > Len(g.chunks)
              /\ Len(g.chunks) > 0
              /\ \E k \in members : req.answers.hits[k].score > g.score
              /\ \E k, l \in members : CandidateScore(k) # CandidateScore(l)

\* The place of the k-th candidate in the list the grouping loop iterates: its
\* place in the hits, or after reranking its place in the stable descending
\* order of the reranked scores.
IterationRank(k) ==
    IF Reranked
    THEN Cardinality({j \in 1..Len(req.answers.hits) :
                         \/ CandidateScore(j) > CandidateScore(k)
                         \/ CandidateScore(j) = CandidateScore(k) /\ j < k}) + 1
    ELSE k

CandidateIsChunk(k) ==
    LET payload == req.answers.hits[k].payload
    IN  "is_chunk" \in DOMAIN payload /\ payload.is_chunk

ChunkCandidatesOf(doc) == {k \in CandidatesOf(doc) : CandidateIsChunk(k)}

\* The place of chunk candidate k among the chunk candidates of its document.
PlaceInDocument(k) ==
    Cardinality({j \in ChunkCandidatesOf(CandidateDoc(k)) :
                    IterationRank(j) < IterationRank(k)}) + 1

\* C3: a group lists at most chunks_per_doc chunks: the first chunks_per_doc
\* chunk candidates of its document in the order the candidates were iterated.
C3_ChunksFirstSeen ==
    Grouped =>
        \A i \in 1..Len(resp.body) :
            LET g == resp.body[i]
                mine == ChunkCandidatesOf(g.document_id)
            IN  /\ Len(g.chunks) <= req.r.chunks_per_doc
                /\ Len(g.chunks) = Min(req.r.chunks_per_doc, Cardinality(mine))
                /\ \A k \in mine :
                      PlaceInDocument(k) <= req.r.chunks_per_doc =>
                          g.chunks[PlaceInDocument(k)].vector_id = req.answers.hits[k].id

\* C3's case: a document with more chunk candidates than the cap, met after
\* reranking in another order than retrieved, so that the chunk listed first
\* is not the one retrieved first.
C3_Witness ==
    /\ Grouped /\ Reranked
    /\ req.r.chunks_per_doc > 0
    /\ \E i \in 1..Len(resp.body) :
          LET g == resp.body[i]
              mine == ChunkCandidatesOf(g.document_id)
          IN  /\ Cardinality(mine) > req.r.chunks_per_doc
              /\ \E k, l \in mine :
                    /\ k < l
                    /\ g.chunks[1].vector_id = req.answers.hits[l].id

\* A hybrid search request without a text query.
HybridWithoutText ==
    req.op = "hybrid_search" /\ req.r.query \in {"image", "corrupt", "none"}

\* C10 as claimed: a hybrid search request without a text query is served by
\* plain search and answers with results, not an error.
C10_FallsBackToPlain ==
    HybridWithoutText /\ req.r.query = "image" =>
        resp.status = 200 /\ "search" \in {trace[i] : i \in 1..Len(trace)}

\* C10 amended: a hybrid search request without a text query is refused with
\* a 400 before anything is embedded or searched.
C10_RefusedWithoutText ==
    HybridWithoutText =>
        /\ resp.status = 400
        /\ "error" \in DOMAIN resp.body
        /\ trace = <<>>

\* C10's case: an image-only hybrid search request, refused.
C10_Witness ==
    /\ HybridWithoutText
    /\ req.r.query = "image"
    /\ resp.status = 400

\* ------------------------------------------------------- claims: ingest

ChunkPoints == {i \in DOMAIN index : Get(index[i].payload, "is_chunk", FALSE)}

ChunkedDocuments == {index[i].payload.document_id : i \in ChunkPoints}

ChunksOf(doc) == {i \in ChunkPoints : index[i].payload.document_id = doc}

\* C4: after any sequence of chunked ingests, the chunk points of a document
\* agree on total_chunks, and their chunk_index values are 0..total_chunks-1,
\* each carried by exactly one point.
C4_ChunkIndexExact ==
    \A doc \in ChunkedDocuments :
        \E n \in 1..MaxChunks :
            /\ \A i \in ChunksOf(doc) : index[i].payload.total_chunks = n
            /\ {index[i].payload.chunk_index : i \in ChunksOf(doc)} = 0..(n - 1)
            /\ Cardinality(ChunksOf(doc)) = n

\* C4's case: two documents stored as chunks, one of them in several.
C4_Witness ==
    /\ Cardinality(ChunkedDocuments) >= 2
    /\ \E doc \in ChunkedDocuments : Cardinality(ChunksOf(doc)) >= 2

\* The points the step writes, and whether it leaves the others alone.
Written == DOMAIN index' \ DOMAIN index

OthersKept == \A i \in DOMAIN index : i \in DOMAIN index' /\ index'[i] = index[i]

Blank(text) == \A i \in 1..Len(text) : text[i] = " "

\* An upload embed takes for text, and one it can decode.
TextUpload(r) ==
    /\ r.src = "file"
    /\ r.content_type \notin allowed_image_types
    /\ r.filename.ext \notin image_exts
    /\ r.content_type \in allowed_text_types \/ r.filename.ext \in text_exts
    /\ r.content.kind \in {"utf-8", "utf-16"}

\* C5 as claimed: with use_hybrid on and the vectorizer loaded, every text
\* point an ingest writes, whole document or chunk, holds a dense and a sparse
\* vector and has_sparse_embedding = true; otherwise it holds no sparse vector.
C5_TextPointsHybrid ==
    [][\A id \in Written :
          LET point == index'[id] IN
          point.payload.type = "text" =>
              IF req'.r.opt.use_hybrid /\ preloaded.sparse_vectorizer
              THEN /\ point.vector \cap {"", "dense"} # {}
                   /\ "sparse" \in point.vector
                   /\ Get(point.payload, "has_sparse_embedding", FALSE)
              ELSE "sparse" \notin point.vector]_vars

\* Text that embed stores as one point: inline text or a decodable upload that
\* is not blank, no longer than chunk_size or with chunking off.
SingleText(r) ==
    /\ \/ r.src = "text"
       \/ TextUpload(r) /\ ~Blank(r.content.text)
    /\ Len(IF r.src = "text" THEN r.text ELSE r.content.text) <= r.opt.chunk_size
       \/ ~r.opt.use_chunking

\* C6 as claimed: such text is stored as exactly one point, not a chunk, whose
\* document_id is the id it is stored under.
C6_DocumentIdIsPointId ==
    [][SingleText(req'.r) =>
          /\ Cardinality(Written) = 1
          /\ \A id \in Written :
                /\ index'[id].payload.is_chunk = FALSE
                /\ index'[id].payload.document_id = id]_vars

\* C6 amended: such text is stored as exactly one point, under the vector_id
\* of the response and with every other point left as it was; the point is
\* not a chunk, and its document_id is the mongo_ref of the response, an id
\* other than the one the point is stored under.
C6_DocumentIdIsMongoRef ==
    [][SingleText(req'.r) =>
          /\ resp'.status = 200
          /\ Written = {resp'.body.vector_id}
          /\ OthersKept
          /\ \A id \in Written :
                /\ index'[id].payload.is_chunk = FALSE
                /\ index'[id].payload.document_id = resp'.body.mongo_ref
                /\ index'[id].payload.document_id # id]_vars

\* C6's case: text no longer than a chunk, chunking on, stored as one point
\* next to points already there.
C6_Witness ==
    /\ req.op = "embed"
    /\ SingleText(req.r)
    /\ req.r.opt.use_chunking
    /\ resp.status = 200
    /\ resp.body.vector_id \in DOMAIN index
    /\ index[resp.body.vector_id].payload.document_id = resp.body.mongo_ref
    /\ Cardinality(DOMAIN index) >= 2

\* An upload embed takes for an image, and can open.
ImageUpload(r) ==
    /\ r.src = "file"
    /\ r.content_type \in allowed_image_types \/ r.filename.ext \in image_exts
    /\ r.content.kind = "image"

\* C7 as claimed: whatever use_chunking, chunk_size and use_hybrid say, an
\* image ingest writes exactly one point, with a dense and no sparse vector,
\* and answers chunked = false.
C7_ImageOnePointNotChunked ==
    [][ImageUpload(req'.r) =>
          /\ Cardinality(Written) = 1
          /\ \A id \in Written : index'[id].vector = {"dense"}
          /\ "chunked" \in DOMAIN resp'.body
          /\ resp'.body.chunked = FALSE]_vars

\* C8 as claimed: blank text, uploaded or inline, is refused with a client
\* error before anything is embedded and before any point is written.
C8_BlankTextRefused ==
    [][(\/ req'.r.src = "text" /\ Blank(req'.r.text)
        \/ TextUpload(req'.r) /\ Blank(req'.r.content.text)) =>
          /\ resp'.status \in 400..499
          /\ \A i \in 1..Len(trace') :
                trace'[i] \notin {"embed_text", "generate_sparse_embedding", "upsert"}
          /\ index' = index]_vars

\* C9: an upload that is neither an image nor text by content type or by
\* extension is refused with a client error before any embedding work, and
\* the index is after the request what it was before.
C9_UnsupportedRefused ==
    [][(/\ req'.r.src = "file"
        /\ req'.r.content_type \notin allowed_image_types \cup allowed_text_types
        /\ req'.r.filename.ext \notin image_exts \cup text_exts) =>
          /\ resp'.status \in 400..499
          /\ trace' = <<>>
          /\ index' = index]_vars

\* C9's case: such an upload, with text in it, refused while the index holds
\* points.
C9_Witness ==
    /\ req.op = "embed"
    /\ req.r.src = "file"
    /\ req.r.content_type \notin allowed_image_types \cup allowed_text_types
    /\ req.r.filename.ext \notin image_exts \cup text_exts
    /\ req.r.content.kind = "utf-8" /\ ~Blank(req.r.content.text)
    /\ resp.status = 400
    /\ index # <<>>

\* hybrid_search met a missing vectorizer or a raising index search, on a
\* request with a text query.
HybridFellBack ==
    /\ req.op = "hybrid_search"
    /\ req.r.query \in {"text", "both"}
    /\ ~preloaded.sparse_vectorizer \/ req.answers.index_raises

C12_ZeroWeightIsDense ==
    (HybridFused /\ RequestedSparseWeight = 0) =>
        LET limit == FormInt(req.r.limit, HYBRID_DEFAULT_LIMIT)
            dense == req.answers.dense_hits
            kept == IF Len(dense) < limit THEN Len(dense) ELSE limit
        IN  /\ Len(resp.body) = kept
            /\ \A i \in 1..kept : resp.body[i].vector_id = dense[i].id

\* --------------------------------------------------- claims: rerank_results

\* Where the candidate of this vector_id stood in the list handed in.
InputPlace(id) == CHOOSE k \in 1..Len(req.results) : req.results[k].vector_id = id

\* C13: rerank_results returns its candidates, each once and each with the
\* cross-encoder's score for it (the retrieval score kept as original_score),
\* in descending order of the new score, candidates of equal new score in the
\* order they had in the list handed in.
C13_RerankSortedStable ==
    req.op = "rerank_results" =>
        LET out == resp.body IN
        /\ Len(out) = Len(req.results)
        /\ {out[i].vector_id : i \in 1..Len(out)}
              = {req.results[k].vector_id : k \in 1..Len(req.results)}
        /\ \A i \in 1..Len(out) :
              /\ out[i].score = req.scores[InputPlace(out[i].vector_id)]
              /\ out[i].original_score = req.results[InputPlace(out[i].vector_id)].score
        /\ \A i, j \in 1..Len(out) :
              i < j =>
                  \/ out[i].score > out[j].score
                  \/ /\ out[i].score = out[j].score
                     /\ InputPlace(out[i].vector_id) < InputPlace(out[j].vector_id)

\* C13's case: three candidates, two of them tied on the new score, and the
\* one retrieved last ranked first.
C13_Witness ==
    /\ req.op = "rerank_results"
    /\ Len(req.results) = 3
    /\ resp.body[1].vector_id = req.results[3].vector_id
    /\ \E i \in 1..2 : resp.body[i].score = resp.body[i + 1].score

\* C14: rerank_results of an empty list is the empty list, and rerank_results
\* of its own output, same query, leaves the order as the first application
\* left it.
C14_RerankEmptyAndIdempotent ==
    /\ (req.op = "rerank_results" /\ req.results = <<>>) => resp.body = <<>>
    /\ req.op = "rerank_again" =>
          /\ Len(resp.body) = Len(req.results)
          /\ \A i \in 1..Len(resp.body) :
                resp.body[i].vector_id = req.results[i].vector_id

\* C14's case: a second application to a list the first one reordered and
\* that holds candidates tied on the new score.
C14_Witness ==
    /\ req.op = "rerank_again"
    /\ Len(req.results) = 3
    /\ \E i \in 1..2 : req.results[i].score = req.results[i + 1].score
    /\ \E i \in 1..2 : req.results[i].original_score < req.results[i + 1].original_score
    /\ resp.body[1].vector_id = req.results[1].vector_id

\* ------------------------------------------- claims: retrieve, then rerank

RequestedLimit == IF req.r.limit = None THEN DEFAULT_LIMIT ELSE req.r.limit

RequestedCandidates ==
    IF req.r.candidates = None
    THEN Min(MAX_DEFAULT_CANDIDATES, RequestedLimit * 3)
    ELSE req.r.candidates

\* A two-stage search that got as far as its index search.
TwoStage ==
    /\ req.op \in {"search_reranked", "search_reranked_chunked"}
    /\ req.r.query \in {"text", "image", "both"}

GroupingAsked == req.op = "search_reranked_chunked" /\ req.r.group_by_document

\* The place the cross-encoder's scores give the k-th hit: after the hits that
\* score higher and the earlier hits that score the same.
RerankPlace(k) ==
    Cardinality({j \in 1..Len(req.answers.hits) :
                    \/ req.answers.scores[j] > req.answers.scores[k]
                    \/ req.answers.scores[j] = req.answers.scores[k] /\ j < k}) + 1

\* All hits were reranked before grouping and before truncation: ungrouped
\* output is the head of the reranked order of all hits; a group's score is the
\* best reranked score of all hits of its document and its chunks carry the
\* reranked score of their hit.
AllHitsReranked ==
    LET hits == req.answers.hits
        scores == req.answers.scores
    IN  /\ trace[Len(trace)] = "rerank_results"
        /\ ~GroupingAsked =>
              /\ Len(resp.body) = Min(RequestedLimit, Len(hits))
              /\ \A k \in 1..Len(hits) :
                    RerankPlace(k) <= RequestedLimit =>
                        /\ resp.body[RerankPlace(k)].vector_id = hits[k].id
                        /\ resp.body[RerankPlace(k)].score = scores[k]
                        /\ resp.body[RerankPlace(k)].original_score = hits[k].score
        /\ GroupingAsked =>
              \A i \in 1..Len(resp.body) :
                  LET g == resp.body[i]
                      mine == {k \in 1..Len(hits) :
                                  Get(hits[k].payload, "document_id", None) = g.document_id}
                  IN  /\ \E k \in mine : g.score = scores[k]
                      /\ \A k \in mine : scores[k] <= g.score
                      /\ \A c \in 1..Len(g.chunks) :
                            \E k \in mine :
                                /\ hits[k].id = g.chunks[c].vector_id
                                /\ g.chunks[c].score = scores[k]
                                /\ g.chunks[c].original_score = hits[k].score

\* C15 as claimed: the index search of search_reranked and of
\* search_reranked_chunked asks for exactly `candidates` points (default
\* min(20, limit*3)), grouped or not, and all hits are reranked before grouping
\* and truncation.
C15_AsksForCandidates ==
    TwoStage =>
        /\ req.answers.search_limit = RequestedCandidates
        /\ Len(req.answers.hits) <= RequestedCandidates
        /\ (preloaded.reranker /\ req.answers.hits # <<>>) => AllHitsReranked

\* C15 amended: the index search asks for `candidates` points (default
\* min(20, limit*3)) in search_reranked and in search_reranked_chunked without
\* grouping, and for twice `candidates` in search_reranked_chunked with
\* group_by_document; all hits are reranked before grouping and truncation.
C15_AsksForCandidatesTwiceWhenGrouped ==
    TwoStage =>
        /\ req.answers.search_limit =
              IF GroupingAsked THEN 2 * RequestedCandidates ELSE RequestedCandidates
        /\ Len(req.answers.hits) <= req.answers.search_limit
        /\ (preloaded.reranker /\ req.answers.hits # <<>>) => AllHitsReranked

\* C15's case: a grouped two-stage search with candidates = 2 that retrieved
\* and reranked three points.
C15_Witness ==
    /\ TwoStage /\ GroupingAsked
    /\ preloaded.reranker
    /\ req.r.candidates = 2
    /\ Len(req.answers.hits) = 3
    /\ resp.status = 200 /\ Len(resp.body) >= 1

\* The first place a document has among the hits.
FirstHitOf(doc) ==
    CHOOSE k \in 1..Len(req.answers.hits) :
        /\ Get(req.answers.hits[k].payload, "document_id", None) = doc
        /\ \A j \in 1..(k - 1) :
              Get(req.answers.hits[j].payload, "document_id", None) # doc

\* C16: in search_reranked and search_reranked_chunked, with no candidate or
\* with the reranker not loaded, the request succeeds with the candidates in
\* retrieval order, truncated to limit and carrying their retrieval scores;
\* when grouping is asked for, with the groups of the candidates' documents in
\* retrieval order, truncated to limit, scored by retrieval scores.
C16_NoRerankKeepsRetrievalOrder ==
    (TwoStage /\ (req.answers.hits = <<>> \/ ~preloaded.reranker)) =>
        LET hits == req.answers.hits
            docs == {Get(hits[k].payload, "document_id", None) : k \in 1..Len(hits)} \ {None}
        IN  /\ resp.status = 200
            /\ \A t \in 1..Len(trace) : trace[t] # "rerank_results"
            /\ ~GroupingAsked =>
                  /\ Len(resp.body) = Min(RequestedLimit, Len(hits))
                  /\ \A i \in 1..Len(resp.body) :
                        /\ resp.body[i].vector_id = hits[i].id
                        /\ resp.body[i].score = hits[i].score
            /\ GroupingAsked =>
                  /\ Len(resp.body) = Min(RequestedLimit, Cardinality(docs))
                  /\ \A i \in 1..Len(resp.body) :
                        /\ resp.body[i].document_id \in docs
                        /\ resp.body[i].score = hits[FirstHitOf(resp.body[i].document_id)].score
                        /\ \A c \in 1..Len(resp.body[i].chunks) :
                              \E k \in 1..Len(hits) :
                                  /\ hits[k].id = resp.body[i].chunks[c].vector_id
                                  /\ hits[k].score = resp.body[i].chunks[c].score
                  /\ \A i, j \in 1..Len(resp.body) :
                        i < j => FirstHitOf(resp.body[i].document_id)
                                     < FirstHitOf(resp.body[j].document_id)

\* C16's case: the reranker is not loaded and search_reranked answers several
\* candidates.
C16_Witness ==
    /\ TwoStage
    /\ req.op = "search_reranked"
    /\ ~preloaded.reranker
    /\ Len(req.answers.hits) > Len(resp.body)
    /\ Len(resp.body) >= 2

\* C17: whatever the variant, the results or groups of a search that answers
\* are in non-increasing order of the score they report.
C17_ResultsNonIncreasing ==
    (/\ req.op \in {"search", "search_reranked", "search_chunked",
                    "search_reranked_chunked", "hybrid_search"}
     /\ resp.status = 200) =>
        \A i \in 1..(Len(resp.body) - 1) : resp.body[i].score >= resp.body[i + 1].score

\* C17's case: a fused hybrid answer in which a point found only by the
\* sparse search outranks a point the dense search found.
C17_Witness ==
    /\ HybridFused
    /\ resp.status = 200
    /\ Len(resp.body) >= 2
    /\ resp.body[1].dense_score = 0
    /\ resp.body[2].dense_score > 0
    /\ resp.body[1].score > resp.body[2].score

\* ------------------------------------------------------- claims: deleting

\* The points the step removes, and whether those it leaves are untouched.
Removed == DOMAIN index \ DOMAIN index'

RestKept == \A i \in DOMAIN index' : i \in DOMAIN index /\ index'[i] = index[i]

C19_DeleteEntryCascades ==
    [][(/\ req'.op = "delete_entry"
        /\ resp'.status = 200
        /\ req'.vector_id \in DOMAIN index
        /\ Get(index[req'.vector_id].payload, "is_chunk", FALSE)) =>
          \A i \in DOMAIN index' :
              Get(index'[i].payload, "document_id", None)
                  # index[req'.vector_id].payload.document_id]_vars

C22_FittedOnlyAtStartup ==
    [][preloaded'.tfidf # preloaded.tfidf
          => /\ ~Serving
             /\ trace = <<"load_models">>
             /\ \A t \in Threads : req[t] = NoRequest]_vars

\* A fitted vectorizer was handed to generate_sparse_embedding by an ingest
\* that finished while another thread's request was in flight.
C22_Witness ==
    /\ Serving
    /\ preloaded.tfidf.vocabulary # None
    /\ resp.status = 200
    /\ resp.op = "embed"
    /\ resp.sparse # <<>>
    /\ \E u \in Threads :
        /\ req[u] # NoRequest
        /\ req[u].op = "hybrid_search"

\* C23: every vector generate_sparse_embedding returns has the fixed length
\* SPARSE_VECTOR_SIZE, and it is the zero vector of that length when the text
\* is empty or the vectorizer was never fitted.
C23_SparseVectorFixedSize ==
    resp.sparse # <<>>
        => /\ resp.sparse[1].dim = SPARSE_VECTOR_SIZE
           /\ (resp.sparse_text[1] = <<>> \/ preloaded.tfidf.vocabulary = None)
                 => resp.sparse[1] = zero_vector

\* ------------------------------------------------ claims: image queries

\* C24: a search handler that is given an image file it cannot open answers
\* with a client error (4xx); the exception of embed_image_file does not
\* escape the handler.
C24_CorruptImageIsClientError ==
    /\ req # NoRequest
    /\ req.op \in {"search", "search_reranked", "search_chunked",
                   "search_reranked_chunked"}
    /\ req.r.query = "corrupt"
    => /\ resp.status \in 400..499
       /\ resp # InternalError

\* ------------------------------------------- claims: scores after rerank

\* The places of the output of rerank_results that hold the candidate.
OutputPlaces(id) == {j \in 1..Len(resp.body) : resp.body[j].vector_id = id}

\* C25: rerank_results on a non-empty list returns every candidate exactly
\* once and no other; the candidate's original_score is the score it came in
\* with and its score is the one the cross-encoder gave to that candidate.
C25_RerankKeepsPairs ==
    req.op \in {"rerank_results", "rerank_again"} /\ req.results # <<>>
        => /\ Len(resp.body) = Len(req.results)
           /\ \A k \in 1..Len(req.results) :
                /\ Cardinality(OutputPlaces(req.results[k].vector_id)) = 1
                /\ \A j \in OutputPlaces(req.results[k].vector_id) :
                     /\ resp.body[j].original_score = req.results[k].score
                     /\ resp.body[j].score = req.scores[k]

\* Two candidates came in with different scores, the cross-encoder scored
\* each differently from its retrieval score, and the order changed.
C25_Witness ==
    /\ req.op = "rerank_results"
    /\ Len(req.results) >= 2
    /\ req.results[1].score # req.results[2].score
    /\ \A k \in 1..Len(req.results) : req.scores[k] # req.results[k].score
    /\ resp.body[1].vector_id # req.results[1].vector_id

\* --------------------------------- claims: candidates without a document

\* The documents the candidates of a grouped search name.
DocumentsFound ==
    {CandidateDoc(k) : k \in 1..Len(req.answers.hits)} \ {None}

\* The candidates that are image points.
ImageCandidates ==
    {k \in 1..Len(req.answers.hits) : req.answers.hits[k].payload.type = "image"}

\* C26: in grouped output the groups are those of the candidates that name a
\* document (as many of them as the limit allows), and a candidate without a
\* document_id is dropped with no error.  No image point written by embed has
\* a document_id, so none shows in grouped output, as a group or as a chunk.
C26_GroupsNeedDocumentId ==
    /\ \A i \in DOMAIN index :
          index[i].payload.type = "image" => "document_id" \notin DOMAIN index[i].payload
    /\ Grouped =>
        /\ resp.status = 200
        /\ Len(resp.body) = Min(RequestedLimit, Cardinality(DocumentsFound))
        /\ \A i \in 1..Len(resp.body) :
              LET g == resp.body[i] IN
              /\ g.document_id \in DocumentsFound
              /\ g.type # "image"
              /\ \A k \in ImageCandidates :
                    /\ g.mongo_ref # req.answers.hits[k].payload.mongo_ref
                    /\ \A c \in 1..Len(g.chunks) :
                          g.chunks[c].vector_id # req.answers.hits[k].id

\* An image point was the best candidate of a grouped search that returned a
\* group for a text document.
C26_Witness ==
    /\ Grouped
    /\ 1 \in ImageCandidates
    /\ Len(req.answers.hits) >= 2
    /\ resp.body # <<>>

\* ------------------------------------------ claims: chunked ingest, steps

\* The points of the index that belong to the document.
PointsOf(doc) ==
    {i \in DOMAIN index : Get(index[i].payload, "document_id", None) = doc}

\* C27: embed_chunked_text writes all the chunks of a document or none: while
\* its chunks are being embedded, and after the chunker gave no chunk or an
\* embedding failed, the index holds no point of the document, and the index
\* never holds only some of the chunks of a document.
C27_AllChunksOrNone ==
    /\ \A i \in ChunkPoints :
          Cardinality(ChunksOf(index[i].payload.document_id))
              = index[i].payload.total_chunks
    /\ req # NoRequest =>
          IF req.pc = "done" /\ resp.status = 200
          THEN Cardinality(PointsOf(req.document_id)) = Len(req.chunks)
          ELSE PointsOf(req.document_id) = {}

\* An embedding failed after the first chunk of a document had been embedded,
\* and the index holds an earlier document.
C27_Witness ==
    /\ req # NoRequest
    /\ req.pc = "done"
    /\ resp = InternalError
    /\ req.embedded >= 1
    /\ index # <<>>

\* ------------------------------------- claims: the fallback of hybrid_search

\* C28: when hybrid_search falls back to plain search, the fallback asks the
\* index for as many points as the hybrid path returns at most (the request's
\* limit, 10 when it has none), and it searches with the request's text, also
\* when the request carries a file.
C28_FallbackSameRequest ==
    HybridFellBack =>
        /\ req.answers.plain_limit = FormInt(req.r.limit, HYBRID_DEFAULT_LIMIT)
        /\ Len(trace) >= 2
        /\ trace[Len(trace) - 1] = "embed_text"
        /\ trace[Len(trace)] = "search"

\* --------------------------------------- claims: what delete_document removes

\* The points stored under the filename, and with them the points whose
\* document_id is the mongo_ref of one of those.
Named(filename) == {i \in DOMAIN index : index[i].payload.filename = filename}

Referring(filename) ==
    {i \in DOMAIN index :
        \E m \in Named(filename) :
            /\ "mongo_ref" \in DOMAIN index[m].payload
            /\ Get(index[i].payload, "document_id", None) = index[m].payload.mongo_ref}

EffectiveLimit ==
    FormInt(req.r.limit,
            IF req.op = "hybrid_search" THEN HYBRID_DEFAULT_LIMIT ELSE DEFAULT_LIMIT)

SearchAnswered ==
    /\ req.op \in {"search", "search_reranked", "search_chunked",
                   "search_reranked_chunked", "hybrid_search"}
    /\ resp.status = 200

\* C30: every search variant answers with at most `limit` items (results, or
\* groups when it groups), and hybrid_search lists every vector_id at most
\* once, also a point that is in both the dense and the sparse hits.
C30_AtMostLimitAndOnce ==
    SearchAnswered =>
        /\ Len(resp.body) <= EffectiveLimit
        /\ req.op = "hybrid_search" =>
              \A j, k \in 1..Len(resp.body) :
                  j # k => resp.body[j].vector_id # resp.body[k].vector_id

\* hybrid_search fused hit lists that share a point and hold more points
\* than the limit between them: the answer was cut to the limit and lists
\* the shared point.
C30_Witness ==
    /\ HybridFused
    /\ req.r.limit # None
    /\ Len(resp.body) = req.r.limit
    /\ Len(req.answers.dense_hits) + Len(req.answers.sparse_hits) > req.r.limit + 1
    /\ \E j \in 1..Len(resp.body) :
          /\ HitScore(req.answers.dense_hits, resp.body[j].vector_id) > 0
          /\ HitScore(req.answers.sparse_hits, resp.body[j].vector_id) > 0

====
